---- MODULE Spec2Model ----
(***************************************************************************)
(* Model of the EVS 2 ms logger (evs_2ms_logger.cpp): the driver's         *)
(* ingestion callback (producer), the bounded chunk queue, the windowing   *)
(* consumer thread and the main/command thread.                            *)
(*                                                                         *)
(* Threads are modelled at the granularity of their accesses to shared     *)
(* state: one step per atomic load/store group, per mutex critical section *)
(* and per condition-variable operation.  A condition_variable::wait(lock, *)
(* pred) is  while (!pred()) wait(lock) :  the predicate is evaluated with *)
(* the mutex held, and entering the wait set releases the mutex            *)
(* atomically; a notify only reaches threads already in the wait set.      *)
(***************************************************************************)
EXTENDS Integers, Sequences, FiniteSets, TLC

\* ----------------------------------------------------------------- bounds
\* Capacity used for model checking; the program's value is 200 (line 43).
QueueCap == 2
\* Chunks the driver delivers in one run.
MaxChunks == 3
\* Events the driver delivers in one run of the windowing specification.
MaxEvents == 3
\* Commands the user issues in one run.
MaxCmds == 3
\* Capture requests the user raises in one run of capture_image.
MaxRequests == 2

\* ------------------------------------------------------ program constants
kWindowUs == 2000
kMaxQueueSize == QueueCap

\* ------------------------------------------------------------ environment
\* Geometry reported by the (single) device.
DevW == 2
DevH == 2
\* Timestamp distance between two consecutive events of the device.
TStep == 1500
\* Events per chunk delivered by the driver.
ChunkLens == {1, 2}
\* Windowing specification: distance of an event to its predecessor, the
\* pixel columns the device reports, the timestamp of the first event.
Gaps == {0, TStep, 3 * TStep}
Cols == {0, 1}
FirstTs == {0, 700}
\* std::optional<timestamp> without a value.
NoWindow == -1

VARIABLES
    \* atomics and objects of main (lines 655-682)
    running, camera_on, recording_enabled, reset_requested,
    recording_reset_requested, camera_width, camera_height,
    output_dir, camera, latest_frame,
    \* ChunkQueue (lines 48-52): deque, mutex owner, wait set of cv
    queue, mutex, cv,
    \* consumer_thread locals (lines 685-691, 705)
    window_start, window_end, window_events, current_frame, frame_index,
    recording_frame_index, window_recording, chunk, ev_i,
    \* program counters
    ppc, cpc, mpc, m_slot,
    \* driver: streaming between start() and stop(), device clock,
    \* chunk held by the callback in flight
    streaming, dev_t, pchunk,
    \* persisted window files, in the order written
    files,
    \* history: chunks created, appended, dequeued, cleared; commands issued
    \* since the initial state
    produced, enq_log, deq_log, lost, ncmds, dirs_made,
    \* history: events delivered by the device since start(), events the
    \* consumer has taken up since its last reset, windows finalized, and
    \* whether the window live when the last close returned is still live
    dev_n, seen, finalized, open_at_close,
    \* I_LL_Biases *biases of main (line 679): null or not
    biases,
    \* history: recording_enabled as it was when each event of seen was
    \* marked (or dropped); start-recording commands that have set their
    \* output directory; for each file, in the order written, the number of
    \* those commands when it was written
    rec_at, sess, file_sess,
    \* bias state of main (lines 643, 680-681): the CLI options, the selected
    \* bias, the index of the step; the device: whether it has the bias
    \* facility, the value of each bias; history: the calls of the driver's
    \* set and the outcome of each bias request
    bias_options, selected_bias, bias_step_index, dev_biases, bias_val,
    set_calls, bias_log,
    \* frame_mutex (line 668): its owner; frame_copy of the display loop
    \* (line 806)
    frame_mutex, frame_copy,
    \* the status the process has exited with, if it has
    exit_status,
    \* history: the number of chunks created when the last close returned
    closed_at,
    \* history: the last command whose handler returned at its guard
    ignored,
    \* history: the files written and the live window when recording was last
    \* switched off
    at_stop,
    \* capture_image: AppState::capture_requested; history: the requests
    \* raised, the number raised at each exchange that found the flag set,
    \* and the runs of capture_image
    capture_requested, requests, served, captures

flags == <<running, camera_on, recording_enabled, reset_requested,
           recording_reset_requested>>
geom == <<camera_width, camera_height>>
qvars == <<queue, mutex, cv>>
accvars == <<window_start, window_end, window_events, current_frame,
             frame_index, recording_frame_index, window_recording>>
convars == <<chunk, ev_i, cpc>>
prodvars == <<ppc, pchunk, streaming, dev_t, dev_n, produced>>
mainvars == <<mpc, m_slot, camera, biases, ncmds, dirs_made>>
outvars == <<latest_frame, files, finalized>>
hist == <<enq_log, deq_log, lost>>
whist == <<seen, open_at_close, rec_at, sess, file_sess>>
biasvars == <<bias_options, selected_bias, bias_step_index, dev_biases,
              bias_val, set_calls, bias_log>>
dispvars == <<frame_mutex, frame_copy>>
cmdhist == <<ignored, at_stop>>
capvars == <<capture_requested, requests, served, captures>>
extvars == <<biasvars, dispvars, exit_status, closed_at, cmdhist, capvars>>
vars == <<flags, geom, output_dir, qvars, accvars, convars, prodvars,
          mainvars, outvars, hist, whist, extvars>>

\* cv::Mat: released/empty, or rows x cols with the set of pixels at 255.
EmptyMat == [cols |-> 0, rows |-> 0, px |-> {}]
NewMat(h, w) == [cols |-> w, rows |-> h, px |-> {}]

\* The sum of the first i entries of a sequence of numbers.
RECURSIVE Sum(_, _)
Sum(gs, i) == IF i = 0 THEN 0 ELSE gs[i] + Sum(gs, i - 1)

\* Lines 509: the chunk a callback invocation copies: n EventCD {x, y, t}
\* with timestamps that do not decrease, gs[i] after the predecessor.
MkChunk(id, t, gs, xs) ==
    [id |-> id,
     evs |-> [i \in 1..Len(gs) |-> [x |-> xs[i], y |-> 0,
                                     t |-> t + Sum(gs, i)]]]
NoChunk == [id |-> 0, evs |-> <<>>]
\* The device of the pipeline specification: one event every TStep, the
\* first at 0, the pixel column following the timestamp.
StepGaps(first, n) == [i \in 1..n |-> IF first /\ i = 1 THEN 0 ELSE TStep]
StepCols(t, gs) == [i \in 1..Len(gs) |-> ((t + Sum(gs, i)) \div TStep) % DevW]

\* ------------------------------------------------------------- biases
\* std::string{} (lines 495, 540, 680).
NoBias == ""
\* BiasCliOptions without an option given (lines 54-65, 643).
NoOptions == [entries |-> <<>>, print_bias_on_open |-> FALSE]
\* Line 682.
step_options == <<1, 5, 10, 20, 50>>
\* The device's biases: those get_all_biases lists, for each whether
\* get_bias_info succeeds, the range it reports (bias_hpf reports its
\* bounds in reverse), whether it is modifiable, the largest value set()
\* accepts, and the value at power-up.  bias_diff_off does not exist.
DevBias ==
    [n \in {"bias_diff", "bias_diff_on", "bias_fo", "bias_hpf"} |->
       CASE n = "bias_diff" ->
              [info |-> TRUE, range |-> <<0, 100>>, modifiable |-> TRUE,
               accepts |-> 255, value |-> 50]
         [] n = "bias_diff_on" ->
              [info |-> FALSE, range |-> <<0, 0>>, modifiable |-> FALSE,
               accepts |-> 255, value |-> 250]
         [] n = "bias_fo" ->
              [info |-> TRUE, range |-> <<0, 100>>, modifiable |-> FALSE,
               accepts |-> 255, value |-> 30]
         [] n = "bias_hpf" ->
              [info |-> TRUE, range |-> <<90, 10>>, modifiable |-> TRUE,
               accepts |-> 80, value |-> 40]]
DevDefaults == [n \in DOMAIN DevBias |-> DevBias[n].value]
\* int main() has not returned.
NoExit == -1
\* No command has been ignored yet.
NoCmd == "none"
\* Recording has not been switched off yet.
NoStop == [files |-> 0, t0 |-> NoWindow, recording |-> FALSE]

\* Lines 655-691: the state main constructs, main at position pc.
Constructed(pc) ==
    /\ selected_bias = NoBias
    /\ bias_step_index = 0
    /\ bias_val = DevDefaults
    /\ set_calls = <<>>
    /\ bias_log = <<>>
    /\ frame_mutex = "none"
    /\ frame_copy = EmptyMat
    /\ exit_status = NoExit
    /\ closed_at = 0
    /\ ignored = NoCmd
    /\ at_stop = NoStop
    /\ capture_requested = FALSE
    /\ requests = 0
    /\ served = <<>>
    /\ captures = 0
    /\ mpc = pc
    /\ running = TRUE
    /\ camera_on = FALSE
    /\ recording_enabled = FALSE
    /\ reset_requested = FALSE
    /\ recording_reset_requested = FALSE
    /\ camera_width = 0
    /\ camera_height = 0
    /\ output_dir = 0
    /\ camera = FALSE
    /\ latest_frame = EmptyMat
    /\ queue = <<>>
    /\ mutex = "none"
    /\ cv = {}
    /\ window_start = NoWindow
    /\ window_end = 0
    /\ window_events = <<>>
    /\ current_frame = EmptyMat
    /\ frame_index = 0
    /\ recording_frame_index = 0
    /\ window_recording = FALSE
    /\ chunk = NoChunk
    /\ ev_i = 0
    /\ ppc = "idle"
    /\ cpc = "c_top"
    /\ m_slot = "m_key"
    /\ streaming = FALSE
    /\ dev_t = 0
    /\ pchunk = NoChunk
    /\ files = <<>>
    /\ produced = 0
    /\ enq_log = <<>>
    /\ deq_log = <<>>
    /\ lost = {}
    /\ ncmds = 0
    /\ dirs_made = 0
    /\ dev_n = 0
    /\ seen = <<>>
    /\ finalized = <<>>
    /\ open_at_close = FALSE
    /\ biases = FALSE
    /\ rec_at = <<>>
    /\ sess = 0
    /\ file_sess = <<>>

\* The program started without options, a device with the bias facility
\* attached: main is at the display loop.
Init ==
    /\ Constructed("m_loop")
    /\ bias_options = NoOptions
    /\ dev_biases = TRUE

\* ------------------------------------------------- condition variable
\* Mutant: the notify reaches no thread.
NotifyOne_lost(w) == {w}
\* notify_one: one thread of the wait set, if any, leaves it.
NotifyOne(w) == IF w = {} THEN {w} ELSE {w \ {t} : t \in w}
\* notify_all: the wait set is emptied.
NotifyAll(w) == {}

\* A waiting thread may wake without a notify (spurious wakeup).
Spurious ==
    /\ cv # {}
    /\ \E t \in cv : cv' = cv \ {t}
    /\ UNCHANGED <<flags, geom, extvars, output_dir, queue, mutex, accvars,
                   convars, prodvars, mainvars, outvars, hist, whist>>

\* ------------------------------------------- ingestion callback (producer)
\* Mutant: the capacity test off by one.
ProducerPred_le == ~running \/ ~camera_on \/ Len(queue) <= kMaxQueueSize
\* Predicate of the producer's wait (line 515).
ProducerPred == ~running \/ ~camera_on \/ Len(queue) < kMaxQueueSize
\* Mutant: the callback tests running alone.
Deactivated_running == ~running
\* The session is deactivated (lines 506, 517).
Deactivated == ~running \/ ~camera_on

\* Lines 504-512: the driver invokes the callback with a new chunk; the
\* callback returns at once when the session is deactivated.
Deliver(gs, xs) ==
    /\ ppc = "idle"
    /\ streaming
    /\ produced' = produced + 1
    /\ dev_t' = dev_t + Sum(gs, Len(gs))
    /\ dev_n' = dev_n + Len(gs)
    /\ IF Deactivated
          THEN /\ ppc' = "idle"
               /\ pchunk' = NoChunk
          ELSE /\ ppc' = "p_lock"
               /\ pchunk' = MkChunk(produced + 1, dev_t, gs, xs)
    /\ UNCHANGED <<flags, geom, extvars, output_dir, qvars, accvars, convars,
                   streaming, mainvars, outvars, hist, whist>>

\* Lines 504-512 for a chunk given by its events.
DeliverEvs(evs) ==
    /\ ppc = "idle"
    /\ streaming
    /\ produced' = produced + 1
    /\ dev_t' = evs[Len(evs)].t
    /\ dev_n' = dev_n + Len(evs)
    /\ IF Deactivated
          THEN /\ ppc' = "idle"
               /\ pchunk' = NoChunk
          ELSE /\ ppc' = "p_lock"
               /\ pchunk' = [id |-> produced + 1, evs |-> evs]
    /\ UNCHANGED <<flags, geom, extvars, output_dir, qvars, accvars, convars,
                   streaming, mainvars, outvars, hist, whist>>

\* The callback is invoked with the next chunk of the regular device.
P_entry ==
    /\ produced < MaxChunks
    /\ \E n \in ChunkLens :
          LET gs == StepGaps(dev_n = 0, n)
          IN Deliver(gs, StepCols(dev_t, gs))

\* The callback is invoked with a chunk of events at any of the distances
\* Gaps and pixel columns Cols.
W_entry ==
    \E n \in ChunkLens :
       /\ dev_n + n <= MaxEvents
       /\ \E gs \in [1..n -> Gaps], xs \in [1..n -> Cols] : Deliver(gs, xs)

\* Lines 514-519 with the mutex held: the wait's loop test and, when it is
\* true, the check that follows the wait (a return unlocks).  The two reads
\* of the flags are one step: the mutex is held throughout, and a
\* deactivation stored between them has the effect of one stored before.
AfterLock ==
    IF ~ProducerPred
       THEN /\ ppc' = "p_wait"
            /\ mutex' = "prod"
            /\ UNCHANGED pchunk
       ELSE IF Deactivated
       THEN /\ ppc' = "idle"
            /\ mutex' = "none"
            /\ pchunk' = NoChunk
       ELSE /\ ppc' = "p_push"
            /\ mutex' = "prod"
            /\ UNCHANGED pchunk

\* Lines 513-519: unique_lock, then the wait's first test.
P_lock ==
    /\ ppc = "p_lock"
    /\ mutex = "none"
    /\ AfterLock
    /\ UNCHANGED <<flags, geom, extvars, output_dir, queue, cv, accvars,
                   convars, streaming, dev_t, dev_n, produced, mainvars,
                   outvars, hist, whist>>

\* Line 514: cv.wait(lock) releases the mutex and enters the wait set.
P_wait ==
    /\ ppc = "p_wait"
    /\ mutex' = "none"
    /\ cv' = cv \cup {"prod"}
    /\ ppc' = "p_blocked"
    /\ UNCHANGED <<flags, geom, extvars, output_dir, queue, accvars, convars,
                   pchunk, streaming, dev_t, dev_n, produced, mainvars,
                   outvars, hist, whist>>

\* Lines 514-519: once out of the wait set the thread re-acquires the
\* mutex and tests again.
P_wake ==
    /\ ppc = "p_blocked"
    /\ "prod" \notin cv
    /\ mutex = "none"
    /\ AfterLock
    /\ UNCHANGED <<flags, geom, extvars, output_dir, queue, cv, accvars,
                   convars, streaming, dev_t, dev_n, produced, mainvars,
                   outvars, hist, whist>>

\* Mutant: the chunk is put at the front.
PushBack_front(q, c) == <<c>> \o q
\* Line 520: the deque after push_back.
PushBack(q, c) == Append(q, c)

\* Lines 520-521: push_back and unlock.
P_push ==
    /\ ppc = "p_push"
    /\ queue' = PushBack(queue, pchunk)
    /\ enq_log' = Append(enq_log, pchunk.id)
    /\ mutex' = "none"
    /\ pchunk' = NoChunk
    /\ ppc' = "p_notify"
    /\ UNCHANGED <<flags, geom, extvars, output_dir, cv, accvars, convars,
                   streaming, dev_t, dev_n, produced, mainvars, outvars,
                   deq_log, lost, whist>>

\* Line 522: notify_one, then the callback returns.
P_notify ==
    /\ ppc = "p_notify"
    /\ cv' \in NotifyOne(cv)
    /\ ppc' = "idle"
    /\ UNCHANGED <<flags, geom, extvars, output_dir, queue, mutex, accvars,
                   convars, pchunk, streaming, dev_t, dev_n, produced,
                   mainvars, outvars, hist, whist>>

Producer == P_entry \/ P_lock \/ P_wait \/ P_wake \/ P_push \/ P_notify

\* ------------------------------------------------ window accumulator
\* The accumulator's state as one value: the consumer's window locals, the
\* published frame and the files written.
AccNow ==
    [window_start |-> window_start, window_end |-> window_end,
     window_events |-> window_events, current_frame |-> current_frame,
     frame_index |-> frame_index,
     recording_frame_index |-> recording_frame_index,
     window_recording |-> window_recording,
     latest_frame |-> latest_frame, files |-> files,
     finalized |-> finalized]

SetAcc(a) ==
    /\ window_start' = a.window_start
    /\ window_end' = a.window_end
    /\ window_events' = a.window_events
    /\ current_frame' = a.current_frame
    /\ frame_index' = a.frame_index
    /\ recording_frame_index' = a.recording_frame_index
    /\ window_recording' = a.window_recording
    /\ latest_frame' = a.latest_frame
    /\ files' = a.files
    /\ finalized' = a.finalized

\* Lines 685-691: the consumer's locals at thread start.
AccInit ==
    [window_start |-> NoWindow, window_end |-> 0, window_events |-> <<>>,
     current_frame |-> EmptyMat, frame_index |-> 0,
     recording_frame_index |-> 0, window_recording |-> FALSE,
     latest_frame |-> EmptyMat, files |-> <<>>, finalized |-> <<>>]

\* Lines 695-699: the reset of the window state.
ResetWindow(a) ==
    [a EXCEPT !.window_start = NoWindow, !.window_events = <<>>,
              !.current_frame = EmptyMat, !.frame_index = 0,
              !.recording_frame_index = 0]

\* Mutant: the recording reset also resets the window state.
ResetRecording_window(a) == ResetWindow(a)
\* Line 702: the recording reset.
ResetRecording(a) == [a EXCEPT !.recording_frame_index = 0]

\* Lines 728: geometry not yet known.
NoGeometry(w, h) == w <= 0 \/ h <= 0

\* Lines 731-735: a window opens at the event's timestamp.
OpenWindow(a, ev, w, h, rec) ==
    [a EXCEPT !.current_frame = NewMat(h, w), !.window_events = <<>>,
              !.window_start = ev.t, !.window_end = ev.t + kWindowUs,
              !.window_recording = rec]

\* Mutant: the boundary test with > for >=.
Crosses_gt(a, ev) == ev.t > a.window_end
\* Line 738: the boundary test of the while loop.
Crosses(a, ev) == ev.t >= a.window_end

\* Mutant: the lines hold y before x.
FileLines_yx(evs) == [i \in 1..Len(evs) |-> <<evs[i].y, evs[i].x>>]
\* Lines 752-754: one "x y" line per event of the window.
FileLines(evs) == [i \in 1..Len(evs) |-> <<evs[i].x, evs[i].y>>]

\* operator<< of an unsigned integer: its decimal digits.
RECURSIVE Decimal(_)
Decimal(n) == IF n < 10 THEN <<n>> ELSE Append(Decimal(n \div 10), n % 10)
\* std::setw(w) with std::setfill('0'): zeros in front up to width w.
RECURSIVE ZeroFill(_, _)
ZeroFill(ds, w) == IF Len(ds) >= w THEN ds ELSE ZeroFill(<<0>> \o ds, w)
\* Lines 748-750: the file's path, as its parts.
FramePath(dir, index, t0) ==
    <<dir, "/frame_", ZeroFill(Decimal(index), 6), "_t0_", Decimal(t0),
      "us.txt">>

\* Mutant: a file is written for every finalized window once an output
\* directory is set.
PersistWindow_always(a, dir) ==
    IF dir # 0
       THEN [a EXCEPT
               !.recording_frame_index = a.recording_frame_index + 1,
               !.files = Append(a.files,
                   [dir |-> dir, index |-> a.recording_frame_index + 1,
                    t0 |-> a.window_start,
                    path |-> FramePath(dir, a.recording_frame_index + 1,
                                       a.window_start),
                    lines |-> FileLines(a.window_events)])]
       ELSE a
\* Lines 740-756: the file of a recorded window.
PersistWindow(a, dir) ==
    IF a.window_recording /\ dir # 0
       THEN [a EXCEPT
               !.recording_frame_index = a.recording_frame_index + 1,
               !.files = Append(a.files,
                   [dir |-> dir, index |-> a.recording_frame_index + 1,
                    t0 |-> a.window_start,
                    path |-> FramePath(dir, a.recording_frame_index + 1,
                                       a.window_start),
                    lines |-> FileLines(a.window_events)])]
       ELSE a

\* Lines 758-761: the frame handed to the display (a clone); the history
\* keeps the finalized window: its start, its frame and, when it was
\* recorded, its events.
PublishFrame(a) ==
    [a EXCEPT !.latest_frame = a.current_frame,
              !.finalized = Append(a.finalized,
                  [t0 |-> a.window_start, frame |-> a.current_frame,
                   recorded |-> a.window_recording,
                   events |-> a.window_events])]

\* Mutant: a window without a pixel set is not finalized.
FinalizeWindow_nonempty(a, dir) ==
    IF a.window_start # NoWindow /\ a.current_frame.px # {}
       THEN PublishFrame(PersistWindow(a, dir))
       ELSE a
\* Lines 739-772: the body of the while loop up to the log line.
FinalizeWindow(a, dir) ==
    IF a.window_start # NoWindow THEN PublishFrame(PersistWindow(a, dir))
                                 ELSE a

\* Mutant: the next window keeps the recording flag of the one before.
AdvanceWindow_sticky(a, rec) ==
    [a EXCEPT !.frame_index = a.frame_index + 1,
              !.window_start = a.window_end,
              !.window_end = a.window_end + kWindowUs,
              !.current_frame = [a.current_frame EXCEPT !.px = {}],
              !.window_events = <<>>]
\* Mutant: the frame buffer is not cleared at the boundary.
AdvanceWindow_keep(a, rec) ==
    [a EXCEPT !.frame_index = a.frame_index + 1,
              !.window_start = a.window_end,
              !.window_end = a.window_end + kWindowUs,
              !.window_events = <<>>,
              !.window_recording = rec]
\* Lines 774-779: the next window.
AdvanceWindow(a, rec) ==
    [a EXCEPT !.frame_index = a.frame_index + 1,
              !.window_start = a.window_end,
              !.window_end = a.window_end + kWindowUs,
              !.current_frame = [a.current_frame EXCEPT !.px = {}],
              !.window_events = <<>>,
              !.window_recording = rec]

\* Mutant: an event outside the buffer is clamped to the edge pixel.
MarkPixel_clamped(f, ev) ==
    [f EXCEPT !.px = f.px \cup {<<IF ev.x < f.cols THEN ev.x ELSE f.cols - 1,
                                  IF ev.y < f.rows THEN ev.y ELSE f.rows - 1>>}]
\* Lines 782-784: the pixel write.
MarkPixel(f, ev) ==
    IF ev.x < f.cols /\ ev.y < f.rows
       THEN [f EXCEPT !.px = f.px \cup {<<ev.x, ev.y>>}]
       ELSE f

\* Mutant: the append follows the recording flag as it is now.
MarkEvent_live(a, ev) ==
    [a EXCEPT !.current_frame = MarkPixel(a.current_frame, ev),
              !.window_events = IF recording_enabled
                                   THEN Append(a.window_events, ev)
                                   ELSE a.window_events]
\* Lines 782-787: pixel write and append.
MarkEvent(a, ev) ==
    [a EXCEPT !.current_frame = MarkPixel(a.current_frame, ev),
              !.window_events = IF a.window_recording
                                   THEN Append(a.window_events, ev)
                                   ELSE a.window_events]

\* ------------------------------------------------------ consumer thread
\* Predicate of the consumer's wait (line 708).
ConsumerPred == ~running \/ queue # <<>>

\* Line 715-716: front and pop_front.
Front(q) == Head(q)
PopFront(q) == Tail(q)

\* The event the for loop is at (line 724).
CurEv == chunk.evs[ev_i]
\* The for loop's next position: the next event, or the loop top.
NextEv == IF ev_i + 1 > Len(chunk.evs) THEN "c_top" ELSE "c_event"

\* Line 693: the loop condition.
C_top ==
    /\ cpc = "c_top"
    /\ cpc' = IF running THEN "c_reset" ELSE "c_done"
    /\ UNCHANGED <<flags, geom, extvars, output_dir, qvars, accvars, chunk,
                   ev_i, prodvars, mainvars, outvars, hist, whist>>

\* Mutant: the window state is reset at every pass of the loop, that is
\* at every chunk boundary.
ResetDue_always == TRUE
\* Line 694: the value reset_requested.exchange(false) returns.
ResetDue == reset_requested

\* Lines 694-700: reset_requested.exchange(false).
C_reset ==
    /\ cpc = "c_reset"
    /\ reset_requested' = FALSE
    /\ SetAcc(IF ResetDue THEN ResetWindow(AccNow) ELSE AccNow)
    /\ seen' = IF ResetDue THEN <<>> ELSE seen
    /\ rec_at' = IF ResetDue THEN <<>> ELSE rec_at
    /\ open_at_close' = IF ResetDue THEN FALSE ELSE open_at_close
    /\ cpc' = "c_rreset"
    /\ UNCHANGED <<running, camera_on, recording_enabled,
                   recording_reset_requested, geom, extvars, output_dir, qvars,
                   chunk, ev_i, prodvars, mainvars, hist, sess, file_sess>>

\* Lines 701-703: recording_reset_requested.exchange(false).
C_rreset ==
    /\ cpc = "c_rreset"
    /\ recording_reset_requested' = FALSE
    /\ SetAcc(IF recording_reset_requested THEN ResetRecording(AccNow)
                                           ELSE AccNow)
    /\ cpc' = "c_lock"
    /\ UNCHANGED <<running, camera_on, recording_enabled, reset_requested,
                   geom, extvars, output_dir, qvars, chunk, ev_i, prodvars,
                   mainvars, hist, whist>>

\* Mutant: the consumer also leaves when the camera is off.
ConsumerBreak_cam == ~running \/ ~camera_on
\* Line 709: the consumer leaves its loop.
ConsumerBreak == ~running

\* Lines 708-717 with the mutex held: the wait's loop test and, when it is
\* true, break, continue or dequeue; the scope's end unlocks.  The two reads
\* of running are one step, as in the producer.
Dequeue ==
    IF ~ConsumerPred
       THEN /\ cpc' = "c_wait"
            /\ mutex' = "cons"
            /\ UNCHANGED <<queue, chunk, deq_log>>
       ELSE IF ConsumerBreak
       THEN /\ cpc' = "c_done"
            /\ mutex' = "none"
            /\ UNCHANGED <<queue, chunk, deq_log>>
       ELSE IF queue = <<>>
       THEN /\ cpc' = "c_top"
            /\ mutex' = "none"
            /\ UNCHANGED <<queue, chunk, deq_log>>
       ELSE /\ chunk' = Front(queue)
            /\ queue' = PopFront(queue)
            /\ deq_log' = Append(deq_log, Front(queue).id)
            /\ mutex' = "none"
            /\ cpc' = "c_notify"

\* Lines 707-717: unique_lock, then the wait's first test.
C_lock ==
    /\ cpc = "c_lock"
    /\ mutex = "none"
    /\ Dequeue
    /\ UNCHANGED <<flags, geom, extvars, output_dir, cv, accvars, ev_i,
                   prodvars, mainvars, outvars, enq_log, lost, whist>>

\* Line 708: cv.wait(lock) releases the mutex and enters the wait set.
C_wait ==
    /\ cpc = "c_wait"
    /\ mutex' = "none"
    /\ cv' = cv \cup {"cons"}
    /\ cpc' = "c_blocked"
    /\ UNCHANGED <<flags, geom, extvars, output_dir, queue, accvars, chunk,
                   ev_i, prodvars, mainvars, outvars, hist, whist>>

\* Lines 708-717: once out of the wait set the thread re-acquires the
\* mutex and tests again.
C_wake ==
    /\ cpc = "c_blocked"
    /\ "cons" \notin cv
    /\ mutex = "none"
    /\ Dequeue
    /\ UNCHANGED <<flags, geom, extvars, output_dir, cv, accvars, ev_i,
                   prodvars, mainvars, outvars, enq_log, lost, whist>>

\* Lines 718-722: notify_one; an empty chunk is skipped.
C_notify ==
    /\ cpc = "c_notify"
    /\ cv' \in NotifyOne(cv)
    /\ IF chunk.evs = <<>>
          THEN cpc' = "c_top" /\ ev_i' = 0
          ELSE cpc' = "c_event" /\ ev_i' = 1
    /\ UNCHANGED <<flags, geom, extvars, output_dir, queue, mutex, accvars,
                   chunk, prodvars, mainvars, outvars, hist, whist>>

\* Lines 738, 782-788: the while test; when the event is inside the live
\* window it is marked and appended (thread-local) and the for loop moves on.
AfterWindow(a) ==
    IF Crosses(a, CurEv)
       THEN /\ SetAcc(a)
            /\ cpc' = "c_final"
            /\ UNCHANGED <<ev_i, rec_at>>
       ELSE /\ SetAcc(MarkEvent(a, CurEv))
            /\ rec_at' = Append(rec_at, recording_enabled)
            /\ cpc' = NextEv
            /\ ev_i' = ev_i + 1

\* Lines 724-738: the next event; a window opens when none is open.
C_event ==
    /\ cpc = "c_event"
    /\ seen' = Append(seen, CurEv)
    /\ IF window_start = NoWindow /\ NoGeometry(camera_width, camera_height)
          THEN /\ cpc' = NextEv
               /\ ev_i' = ev_i + 1
               /\ rec_at' = Append(rec_at, recording_enabled)
               /\ UNCHANGED <<accvars, outvars>>
          ELSE AfterWindow(IF window_start = NoWindow
                              THEN OpenWindow(AccNow, CurEv, camera_width,
                                              camera_height,
                                              recording_enabled)
                              ELSE AccNow)
    /\ UNCHANGED <<flags, geom, extvars, output_dir, qvars, chunk, prodvars,
                   mainvars, hist, open_at_close, sess, file_sess>>

\* Lines 739-761: the live window is finalized: file, then frame.
C_final ==
    /\ cpc = "c_final"
    /\ SetAcc(FinalizeWindow(AccNow, output_dir))
    /\ file_sess' = IF Len(files') > Len(files) THEN Append(file_sess, sess)
                                                ELSE file_sess
    /\ cpc' = "c_adv"
    /\ UNCHANGED <<flags, geom, extvars, output_dir, qvars, chunk, ev_i,
                   prodvars, mainvars, hist, seen, open_at_close, rec_at,
                   sess>>

\* Lines 763-780: the queue size is read under the mutex for the log line,
\* then the next window starts and the while test is made again.
C_adv ==
    /\ cpc = "c_adv"
    /\ mutex = "none"
    /\ AfterWindow(AdvanceWindow(AccNow, recording_enabled))
    /\ UNCHANGED <<flags, geom, extvars, output_dir, qvars, chunk, prodvars,
                   mainvars, hist, seen, open_at_close, sess, file_sess>>

Consumer == C_top \/ C_reset \/ C_rreset \/ C_lock \/ C_wait \/ C_wake
               \/ C_notify \/ C_event \/ C_final \/ C_adv

\* ------------------------------------------------------- bias requests
\* get_all_biases(): the names the driver lists.
AllBiases == DOMAIN DevBias
\* std::map order: the first name listed (line 292).
FirstBias == "bias_diff"
\* Lines 225, 312, 379: get_bias_info succeeds.
GetBiasInfo(name) == name \in AllBiases /\ DevBias[name].info
\* LL_Bias_Info::is_modifiable.
IsModifiable(name) == DevBias[name].modifiable

\* Lines 220-233.
bias_range_or_default(fac, name) ==
    IF ~fac THEN <<0, 255>>
    ELSE IF GetBiasInfo(name)
    THEN LET range == DevBias[name].range
         IN IF range[1] > range[2] THEN <<range[2], range[1]>> ELSE range
    ELSE <<0, 255>>

\* Mutant: no test against the upper bound.
clamp_bias_value_lower(value, range) ==
    IF value < range[1] THEN range[1] ELSE value
\* Lines 235-243.
clamp_bias_value(value, range) ==
    IF value < range[1] THEN range[1]
    ELSE IF value > range[2] THEN range[2]
    ELSE value

\* The bias state a request works on: the driver's values, the calls of
\* set and the outcomes so far.
BiasNow == [val |-> bias_val, calls |-> set_calls, log |-> bias_log]
\* A request ends without a call of set.
Refused(st, name, outcome) ==
    [st EXCEPT !.log = Append(st.log, [name |-> name, outcome |-> outcome])]
\* Lines 328-333, 388-397: biases->set(name, value); the driver stores the
\* value, or rejects it (returns false or throws).
DriverSet(st, name, requested, value) ==
    LET ok == value <= DevBias[name].accepts
    IN [val |-> IF ok THEN [st.val EXCEPT ![name] = value] ELSE st.val,
        calls |-> Append(st.calls, [name |-> name, requested |-> requested,
                                    value |-> value]),
        log |-> Append(st.log,
                       [name |-> name,
                        outcome |-> IF ok THEN "Applied"
                                          ELSE "BiasWriteFailed"])]

\* Mutant: a read-only bias is written.
ApplyCheck_writable(fac, name) ==
    IF ~fac THEN "BiasUnsupported"
    ELSE IF ~GetBiasInfo(name) THEN "BiasNotFound"
    ELSE "Write"
\* Lines 306-319: the tests of apply_single_bias, in their order.
ApplyCheck(fac, name) ==
    IF ~fac THEN "BiasUnsupported"
    ELSE IF ~GetBiasInfo(name) THEN "BiasNotFound"
    ELSE IF ~IsModifiable(name) THEN "BiasReadOnly"
    ELSE "Write"

\* Lines 305-335.
apply_single_bias(fac, st, name, value) ==
    IF ApplyCheck(fac, name) # "Write"
       THEN Refused(st, name, ApplyCheck(fac, name))
       ELSE DriverSet(st, name, value,
                      clamp_bias_value(value,
                                       bias_range_or_default(fac, name)))

\* Lines 337-360: the options given, in the order of bias_entries.
RECURSIVE apply_bias_settings(_, _, _)
apply_bias_settings(fac, st, entries) ==
    IF entries = <<>>
       THEN st
       ELSE apply_bias_settings(fac,
                apply_single_bias(fac, st, Head(entries).name,
                                  Head(entries).value),
                Tail(entries))

\* Lines 199-209, 363-383: the tests of the '+' and '-' commands, in their
\* order.
AdjustCheck(on, fac, name) ==
    IF ~on THEN "CameraOff"
    ELSE IF ~fac THEN "BiasUnsupported"
    ELSE IF name = NoBias THEN "NoSelection"
    ELSE IF name \notin AllBiases THEN "BiasNotFound"
    ELSE IF GetBiasInfo(name) /\ ~IsModifiable(name) THEN "BiasReadOnly"
    ELSE "Write"

\* Lines 362-401 after camera_biases_ready (lines 606, 613).
adjust_bias(on, fac, st, name, delta) ==
    IF AdjustCheck(on, fac, name) # "Write"
       THEN Refused(st, name, AdjustCheck(on, fac, name))
       ELSE LET requested_value == st.val[name] + delta
            IN DriverSet(st, name, requested_value,
                         clamp_bias_value(requested_value,
                             bias_range_or_default(fac, name)))

SetBias(st) ==
    /\ bias_val' = st.val
    /\ set_calls' = st.calls
    /\ bias_log' = st.log

\* Lines 494-503: the bias facility of the opened device, the selection
\* cleared, the options applied.
OpenBiases ==
    /\ biases' = dev_biases
    /\ selected_bias' = NoBias
    /\ SetBias(apply_bias_settings(dev_biases, BiasNow, bias_options.entries))
    /\ bias_options' = [bias_options EXCEPT !.print_bias_on_open = FALSE]
    /\ UNCHANGED <<bias_step_index, dev_biases>>

\* ------------------------------------------------- main / command thread
\* The two places of the display loop that run a command: the key returned
\* by waitKey (lines 817-826) and the console command (lines 828-832).
AtCmd == mpc \in {"m_key", "m_console"} /\ ncmds < MaxCmds
\* Line 799: the open command main runs at startup when a bias option or
\* --print-bias is given.
StartupOpen ==
    bias_options.entries # <<>> \/ bias_options.print_bias_on_open
\* The places that run the open command: the two of the display loop and
\* the startup (lines 799-803).
AtOpen == AtCmd \/ (mpc = "m_start" /\ StartupOpen)
\* Where handle_command returns to.
AfterCmd(slot) == IF slot = "m_key" THEN "m_console" ELSE "m_loop"
\* A handler of several steps is entered / a handler returns.
Enter(first) == mpc' = first /\ m_slot' = mpc /\ ncmds' = ncmds + 1
Return == mpc' = AfterCmd(m_slot) /\ m_slot' = "m_key"
\* A handler of one step.
OneStep == mpc' = AfterCmd(mpc) /\ ncmds' = ncmds + 1 /\ UNCHANGED m_slot
\* A command that changes nothing.
NoEffect == mpc' = AfterCmd(mpc) /\ UNCHANGED <<m_slot, ncmds>>

\* Line 805: the display loop's condition.
M_loop ==
    /\ mpc = "m_loop"
    /\ mpc' = IF running THEN "m_key" ELSE "m_x1"
    /\ UNCHANGED <<flags, geom, extvars, output_dir, qvars, accvars, convars,
                   prodvars, m_slot, camera, biases, ncmds, dirs_made, outvars,
                   hist, whist>>

\* Lines 817, 828: no key pressed / no console command pending.
M_none ==
    /\ mpc \in {"m_key", "m_console"}
    /\ mpc' = AfterCmd(mpc)
    /\ UNCHANGED <<flags, geom, extvars, output_dir, qvars, accvars, convars,
                   prodvars, m_slot, camera, biases, ncmds, dirs_made, outvars,
                   hist, whist>>

\* Mutant: close with the camera off still clears the queue and asks for
\* the reset.
M_noop_reclose ==
    /\ AtCmd
    /\ \E c \in {"o", "f", "s", "e"} :
          /\ \/ c = "o" /\ camera_on
             \/ c = "f" /\ ~camera_on
             \/ c = "s" /\ recording_enabled
             \/ c = "e" /\ ~recording_enabled
          /\ ignored' = c
          /\ queue' = IF c = "f" THEN <<>> ELSE queue
          /\ reset_requested' = IF c = "f" THEN TRUE ELSE reset_requested
    /\ NoEffect
    /\ UNCHANGED <<running, camera_on, recording_enabled,
                   recording_reset_requested, geom, biasvars, dispvars,
                   exit_status, closed_at, at_stop, capvars, output_dir,
                   mutex, cv, accvars,
                   convars, prodvars, camera, biases, dirs_made, outvars,
                   hist, whist>>
\* Lines 480-483, 530-533, 552-555, 574-577: the command does not apply.
M_noop ==
    /\ AtCmd
    /\ \E c \in {"o", "f", "s", "e"} :
          /\ \/ c = "o" /\ camera_on
             \/ c = "f" /\ ~camera_on
             \/ c = "s" /\ recording_enabled
             \/ c = "e" /\ ~recording_enabled
          /\ ignored' = c
    /\ NoEffect
    /\ UNCHANGED <<flags, geom, biasvars, dispvars, exit_status, closed_at,
                   at_stop, capvars, output_dir, qvars, accvars, convars,
                   prodvars, camera, biases, dirs_made, outvars, hist, whist>>

\* A handler is entered whose command fails.
EnterFailing(catch) == mpc' = catch /\ m_slot' = mpc /\ UNCHANGED ncmds

\* Mutant: camera_on and the reset are stored before the device is opened.
M_o_fail_stored ==
    /\ AtOpen
    /\ ~camera_on
    /\ EnterFailing("m_o_failed")
    /\ camera_on' = TRUE
    /\ reset_requested' = TRUE
    /\ UNCHANGED <<running, recording_enabled, recording_reset_requested,
                   geom, extvars, output_dir, qvars, accvars, convars,
                   prodvars, camera, biases, dirs_made, outvars, hist, whist>>
\* Lines 480-486: no device can be opened: from_first_available throws and
\* control is in the catch block.
M_o_fail ==
    /\ AtOpen
    /\ ~camera_on
    /\ EnterFailing("m_o_failed")
    /\ UNCHANGED <<flags, geom, extvars, output_dir, qvars, accvars, convars,
                   prodvars, camera, biases, dirs_made, outvars, hist, whist>>

\* Lines 487-488: the catch block logs and returns.
M_o_failed ==
    /\ mpc = "m_o_failed"
    /\ Return
    /\ UNCHANGED <<flags, geom, extvars, output_dir, qvars, accvars, convars,
                   prodvars, camera, biases, ncmds, dirs_made, outvars,
                   hist, whist>>

\* Lines 485-491: the camera object and its geometry.
M_o1 ==
    /\ AtOpen
    /\ ~camera_on
    /\ camera' = TRUE
    /\ UNCHANGED biases
    /\ camera_width' = DevW
    /\ camera_height' = DevH
    /\ Enter("m_o2")
    /\ UNCHANGED <<flags, output_dir, extvars, qvars, accvars, convars,
                   prodvars, dirs_made, outvars, hist, whist>>

\* Line 492.
M_o2 ==
    /\ mpc = "m_o2"
    /\ camera_on' = TRUE
    /\ mpc' = "m_o3"
    /\ UNCHANGED <<running, recording_enabled, reset_requested,
                   recording_reset_requested, geom, extvars, output_dir, qvars,
                   accvars, convars, prodvars, m_slot, camera, biases, ncmds,
                   dirs_made, outvars, hist, whist>>

\* Line 493.
M_o3 ==
    /\ mpc = "m_o3"
    /\ reset_requested' = TRUE
    /\ mpc' = "m_o4"
    /\ UNCHANGED <<running, camera_on, recording_enabled,
                   recording_reset_requested, geom, extvars, output_dir, qvars,
                   accvars, convars, prodvars, m_slot, camera, biases, ncmds,
                   dirs_made, outvars, hist, whist>>

\* Lines 494-526: the bias facility is fetched, the callback is installed
\* and the device started; the device's timestamps start at 0.
M_o4 ==
    /\ mpc = "m_o4"
    /\ OpenBiases
    /\ streaming' = TRUE
    /\ dev_t' = 0
    /\ dev_n' = 0
    /\ Return
    /\ UNCHANGED <<flags, geom, dispvars, exit_status, closed_at, cmdhist,
                   capvars, output_dir, qvars, accvars, convars, ppc, pchunk,
                   produced, camera, ncmds, dirs_made, outvars, hist, whist>>

\* Line 524: start() throws.  The exception is caught nowhere: it leaves
\* handle_command and main, and the process is terminated
\* (std::terminate) with the stores of lines 490-493 made.
M_o4_throw ==
    /\ mpc = "m_o4"
    /\ OpenBiases
    /\ mpc' = "m_abort"
    /\ UNCHANGED <<flags, geom, dispvars, exit_status, closed_at, cmdhist,
                   capvars, output_dir, qvars, accvars, convars, prodvars,
                   m_slot, camera, ncmds, dirs_made, outvars, hist, whist>>

\* Camera::stop() returns once the callback in flight has returned.
StopReturns == ppc = "idle"

\* Line 534.
M_f1 ==
    /\ AtCmd
    /\ camera_on
    /\ camera_on' = FALSE
    /\ Enter("m_f2")
    /\ UNCHANGED <<running, recording_enabled, reset_requested,
                   recording_reset_requested, geom, extvars, output_dir,
                   qvars, accvars, convars, prodvars, camera, biases,
                   dirs_made, outvars, hist, whist>>

\* Lines 535-540: stop and release the camera.
M_f2 ==
    /\ mpc = "m_f2"
    /\ IF camera
          THEN /\ StopReturns
               /\ streaming' = FALSE
               /\ camera' = FALSE
          ELSE UNCHANGED <<streaming, camera>>
    /\ biases' = FALSE
    /\ selected_bias' = NoBias
    /\ mpc' = "m_f3"
    /\ UNCHANGED <<flags, geom, bias_options, bias_step_index, dev_biases,
                   bias_val, set_calls, bias_log, dispvars, exit_status,
                   closed_at, cmdhist, capvars, output_dir, qvars, accvars,
                   convars, ppc, pchunk, dev_t, dev_n, produced, m_slot,
                   ncmds, dirs_made, outvars, hist, whist>>

\* The ids of the chunks of a queue.
Ids(q) == {q[i].id : i \in 1..Len(q)}

\* Mutant: the queue is left as it is.
Clear_keep(q) == q
\* Line 543: the deque after clear.
Clear(q) == <<>>

\* Lines 541-544: the queue is cleared under the mutex.
M_f3 ==
    /\ mpc = "m_f3"
    /\ mutex = "none"
    /\ queue' = Clear(queue)
    /\ lost' = lost \cup Ids(queue)
    /\ mpc' = "m_f4"
    /\ UNCHANGED <<flags, geom, extvars, output_dir, mutex, cv, accvars,
                   convars, prodvars, m_slot, camera, biases, ncmds,
                   dirs_made, outvars, enq_log, deq_log, whist>>

\* Line 545.
M_f4 ==
    /\ mpc = "m_f4"
    /\ cv' = NotifyAll(cv)
    /\ mpc' = "m_f5"
    /\ UNCHANGED <<flags, geom, extvars, output_dir, queue, mutex, accvars,
                   convars, prodvars, m_slot, camera, biases, ncmds,
                   dirs_made, outvars, hist, whist>>

\* Line 546.
M_f5 ==
    /\ mpc = "m_f5"
    /\ reset_requested' = TRUE
    /\ open_at_close' = (window_start # NoWindow)
    /\ closed_at' = produced
    /\ Return
    /\ UNCHANGED <<running, camera_on, recording_enabled,
                   recording_reset_requested, geom, biasvars, dispvars,
                   exit_status, cmdhist, capvars, output_dir, qvars, accvars,
                   convars, prodvars, camera, biases, ncmds, dirs_made,
                   outvars, hist, seen, rec_at, sess, file_sess>>

\* Mutant: the output directory and the recording reset are stored before
\* the directory is created.
M_s_fail_stored ==
    /\ AtCmd
    /\ ~recording_enabled
    /\ EnterFailing("m_s_failed")
    /\ output_dir' = dirs_made + 1
    /\ recording_reset_requested' = TRUE
    /\ UNCHANGED <<running, camera_on, recording_enabled, reset_requested,
                   geom, extvars, qvars, accvars, convars,
                   prodvars, camera, biases, dirs_made, outvars, hist, whist>>
\* Lines 552-559: the output directory cannot be created:
\* create_directories throws and control is in the catch block.
M_s_fail ==
    /\ AtCmd
    /\ ~recording_enabled
    /\ EnterFailing("m_s_failed")
    /\ UNCHANGED <<flags, geom, extvars, output_dir, qvars, accvars, convars,
                   prodvars, camera, biases, dirs_made, outvars, hist, whist>>

\* Lines 560-561: the catch block logs and returns.
M_s_failed ==
    /\ mpc = "m_s_failed"
    /\ Return
    /\ UNCHANGED <<flags, geom, extvars, output_dir, qvars, accvars, convars,
                   prodvars, camera, biases, ncmds, dirs_made, outvars,
                   hist, whist>>

\* Lines 556-566: a new output directory.
M_s1 ==
    /\ AtCmd
    /\ ~recording_enabled
    /\ dirs_made' = dirs_made + 1
    /\ output_dir' = dirs_made + 1
    /\ sess' = sess + 1
    /\ Enter("m_s2")
    /\ UNCHANGED <<flags, geom, extvars, qvars, accvars, convars, prodvars,
                   camera, biases, outvars, hist, seen, open_at_close, rec_at,
                   file_sess>>

\* Line 567.
M_s2 ==
    /\ mpc = "m_s2"
    /\ recording_reset_requested' = TRUE
    /\ mpc' = "m_s3"
    /\ UNCHANGED <<running, camera_on, recording_enabled, reset_requested,
                   geom, extvars, output_dir, qvars, accvars, convars,
                   prodvars, m_slot, camera, biases, ncmds, dirs_made,
                   outvars, hist, whist>>

\* Line 568.
M_s3 ==
    /\ mpc = "m_s3"
    /\ recording_enabled' = TRUE
    /\ Return
    /\ UNCHANGED <<running, camera_on, reset_requested,
                   recording_reset_requested, geom, extvars, output_dir,
                   qvars, accvars, convars, prodvars, camera, biases, ncmds,
                   dirs_made, outvars, hist, whist>>

\* Line 578.
M_e1 ==
    /\ AtCmd
    /\ recording_enabled
    /\ recording_enabled' = FALSE
    /\ at_stop' = [files |-> Len(files), t0 |-> window_start,
                   recording |-> window_recording]
    /\ OneStep
    /\ UNCHANGED <<running, camera_on, reset_requested,
                   recording_reset_requested, geom, biasvars, dispvars,
                   exit_status, closed_at, ignored, capvars, output_dir,
                   qvars, accvars, convars, prodvars, camera, biases,
                   dirs_made, outvars, hist, whist>>

\* Line 584.
M_q1 ==
    /\ AtCmd
    /\ running' = FALSE
    /\ Enter("m_q2")
    /\ UNCHANGED <<camera_on, recording_enabled, reset_requested,
                   recording_reset_requested, geom, extvars, output_dir,
                   qvars, accvars, convars, prodvars, camera, biases,
                   dirs_made, outvars, hist, whist>>

\* Line 585.
M_q2 ==
    /\ mpc = "m_q2"
    /\ cv' = NotifyAll(cv)
    /\ Return
    /\ UNCHANGED <<flags, geom, extvars, output_dir, queue, mutex, accvars,
                   convars, prodvars, camera, biases, ncmds, dirs_made,
                   outvars, hist, whist>>

\* Lines 672-676: the SIGINT handler stores running = false.
SigInt ==
    /\ running
    /\ mpc # "m_done"
    /\ running' = FALSE
    /\ UNCHANGED <<camera_on, recording_enabled, reset_requested,
                   recording_reset_requested, geom, extvars, output_dir, qvars,
                   accvars, convars, prodvars, mainvars, outvars, hist, whist>>

\* Lines 835-838: the device is stopped when the loop is left with it on.
M_x1 ==
    /\ mpc = "m_x1"
    /\ IF camera_on /\ camera
          THEN StopReturns /\ streaming' = FALSE /\ camera' = FALSE
          ELSE UNCHANGED <<streaming, camera>>
    /\ UNCHANGED biases
    /\ mpc' = "m_x2"
    /\ UNCHANGED <<flags, geom, extvars, output_dir, qvars, accvars, convars,
                   ppc, pchunk, dev_t, dev_n, produced, m_slot, ncmds,
                   dirs_made, outvars, hist, whist>>

\* Line 840.
M_x2 ==
    /\ mpc = "m_x2"
    /\ cv' = NotifyAll(cv)
    /\ mpc' = "m_join"
    /\ UNCHANGED <<flags, geom, extvars, output_dir, queue, mutex, accvars,
                   convars, prodvars, m_slot, camera, biases, ncmds,
                   dirs_made, outvars, hist, whist>>

\* Mutant: main does not wait for the consumer thread.
ConsumerEnded_nowait == TRUE
\* Line 842: what join() waits for: the thread function has returned.
ConsumerEnded == cpc = "c_done"

\* Lines 841-847: join returns once the consumer thread has ended, and
\* main returns.
M_join ==
    /\ mpc = "m_join"
    /\ ConsumerEnded
    /\ mpc' = "m_done"
    /\ exit_status' = 0
    /\ UNCHANGED <<flags, geom, biasvars, dispvars, closed_at, cmdhist,
                   capvars, output_dir, qvars, accvars, convars, prodvars,
                   m_slot, camera, biases, ncmds, dirs_made, outvars, hist,
                   whist>>

\* Line 799: without a bias option main goes on to the display loop.
M_start ==
    /\ mpc = "m_start"
    /\ ~StartupOpen
    /\ mpc' = "m_loop"
    /\ UNCHANGED <<flags, geom, extvars, output_dir, qvars, accvars, convars,
                   prodvars, m_slot, camera, biases, ncmds, dirs_made,
                   outvars, hist, whist>>

\* What a bias command leaves alone.
BiasCmdFrame ==
    UNCHANGED <<flags, geom, bias_options, dev_biases, dispvars, exit_status,
                closed_at, cmdhist, capvars, output_dir, qvars, accvars, convars, prodvars,
                camera, biases, dirs_made, outvars, hist, whist>>

\* Lines 605-618: '+' and '-': the selected bias by the step.
M_adjust ==
    /\ AtCmd
    /\ OneStep
    /\ \E sign \in {1, -1} :
          SetBias(adjust_bias(camera_on, biases, BiasNow, selected_bias,
                              sign * step_options[bias_step_index + 1]))
    /\ UNCHANGED <<selected_bias, bias_step_index>>
    /\ BiasCmdFrame

\* Lines 446-458, 619-626: ']' and '[': the next or previous step.
adjust_step(direction, step_index) ==
    LET next == step_index + direction
    IN IF next < 0 THEN 0
       ELSE IF next >= Len(step_options) THEN Len(step_options) - 1
       ELSE next

M_step ==
    /\ AtCmd
    /\ OneStep
    /\ \E direction \in {1, -1} :
          bias_step_index' = adjust_step(direction, bias_step_index)
    /\ UNCHANGED <<selected_bias, bias_val, set_calls, bias_log>>
    /\ BiasCmdFrame

\* Lines 199-209: camera_biases_ready.
camera_biases_ready == camera_on /\ biases

\* Lines 421-444, 597-604: 'n': the name read from the console, trimmed,
\* is selected when the driver lists it.
M_select ==
    /\ AtCmd
    /\ OneStep
    /\ \E input \in AllBiases \cup {NoBias, "bias_diff_off"} :
          selected_bias' = IF camera_biases_ready /\ input \in AllBiases
                              THEN input
                              ELSE selected_bias
    /\ UNCHANGED <<bias_step_index, bias_val, set_calls, bias_log>>
    /\ BiasCmdFrame

\* Lines 245-303, 589-596, 627-634: 'b', 'B' and 'p': the biases are
\* printed; listing them selects the first one when none is selected.
M_list ==
    /\ AtCmd
    /\ OneStep
    /\ \E cmd \in {"b", "p"} :
          selected_bias' = IF cmd = "b" /\ camera_biases_ready
                              /\ selected_bias = NoBias
                              THEN FirstBias
                              ELSE selected_bias
    /\ UNCHANGED <<bias_step_index, bias_val, set_calls, bias_log>>
    /\ BiasCmdFrame

\* The bias commands.
BiasCmd == M_adjust \/ M_step \/ M_select \/ M_list

\* The steps of main that follow from its position alone.
MainInternal == M_loop \/ M_none \/ M_o_failed \/ M_o2 \/ M_o3 \/ M_o4
                   \/ M_f2 \/ M_f3 \/ M_f4 \/ M_f5 \/ M_q2 \/ M_x1 \/ M_x2
                   \/ M_join
\* The commands open, close and quit.
SessionCmd == M_noop \/ M_o_fail \/ M_o1 \/ M_f1 \/ M_q1
\* The commands start-recording and stop-recording.
RecordingCmd == M_s_fail \/ M_s_failed \/ M_s1 \/ M_s2 \/ M_s3 \/ M_e1

\* The pipeline under the session commands and SIGINT, recording off.
Next == Producer \/ Consumer \/ MainInternal \/ SessionCmd \/ SigInt
           \/ Spurious

Spec == Init /\ [][Next]_vars

\* Scheduling: every thread that can run does run (the mutex is handed to
\* each thread that keeps asking for it), main keeps polling; the user's
\* commands, SIGINT, new chunks and spurious wakeups are never owed.
ProducerInternal == P_lock \/ P_wait \/ P_wake \/ P_push \/ P_notify
FairSpec ==
    /\ Spec
    /\ SF_vars(Consumer)
    /\ SF_vars(ProducerInternal)
    /\ SF_vars(MainInternal)

\* ---------------------------------------------- windowing specification
\* The state after an open command (and, with recording, a start-recording
\* command) has returned and before the consumer has run: the session is
\* active and stays so; the device's first timestamp is one of FirstTs.
Opened(w, h) ==
    /\ bias_options = NoOptions
    /\ selected_bias = NoBias
    /\ bias_step_index = 0
    /\ dev_biases = TRUE
    /\ bias_val = DevDefaults
    /\ set_calls = <<>>
    /\ bias_log = <<>>
    /\ frame_mutex = "none"
    /\ frame_copy = EmptyMat
    /\ exit_status = NoExit
    /\ closed_at = 0
    /\ ignored = NoCmd
    /\ at_stop = NoStop
    /\ capture_requested = FALSE
    /\ requests = 0
    /\ served = <<>>
    /\ captures = 0
    /\ running = TRUE
    /\ camera_on = TRUE
    /\ recording_enabled \in BOOLEAN
    /\ reset_requested = TRUE
    /\ recording_reset_requested = recording_enabled
    /\ camera_width = w
    /\ camera_height = h
    /\ output_dir = (IF recording_enabled THEN 1 ELSE 0)
    /\ camera = TRUE
    /\ latest_frame = EmptyMat
    /\ queue = <<>>
    /\ mutex = "none"
    /\ cv = {}
    /\ window_start = NoWindow
    /\ window_end = 0
    /\ window_events = <<>>
    /\ current_frame = EmptyMat
    /\ frame_index = 0
    /\ recording_frame_index = 0
    /\ window_recording = FALSE
    /\ chunk = NoChunk
    /\ ev_i = 0
    /\ ppc = "idle"
    /\ cpc = "c_top"
    /\ mpc = "m_loop"
    /\ m_slot = "m_key"
    /\ streaming = TRUE
    /\ dev_t \in FirstTs
    /\ pchunk = NoChunk
    /\ files = <<>>
    /\ produced = 0
    /\ enq_log = <<>>
    /\ deq_log = <<>>
    /\ lost = {}
    /\ ncmds = 0
    /\ dirs_made = output_dir
    /\ dev_n = 0
    /\ seen = <<>>
    /\ finalized = <<>>
    /\ open_at_close = FALSE
    /\ biases = TRUE
    /\ rec_at = <<>>
    /\ sess = (IF recording_enabled THEN 1 ELSE 0)
    /\ file_sess = <<>>

WInit == Opened(DevW, DevH)

WNext == W_entry \/ ProducerInternal \/ Consumer \/ Spurious

WinSpec == WInit /\ [][WNext]_vars

\* The pipeline alone: the session active throughout, the regular device,
\* recording off, the threads scheduled.
PipeInit == WInit /\ dev_t = 0 /\ ~recording_enabled
PipeNext == P_entry \/ ProducerInternal \/ Consumer \/ Spurious
PipeSpec ==
    /\ PipeInit /\ [][PipeNext]_vars
    /\ SF_vars(Consumer)
    /\ SF_vars(ProducerInternal)

\* The pipeline with a device whose start() may throw: once the process is
\* terminated no thread takes a step.
StartNext == mpc # "m_abort" /\ (Next \/ M_o4_throw)
StartSpec == Init /\ [][StartNext]_vars

\* Recording: the session open throughout, the regular device, the commands
\* start-recording and stop-recording.
RecInit == Opened(DevW, DevH) /\ dev_t = 0 /\ ~recording_enabled
RecMain == M_loop \/ M_none \/ M_noop \/ RecordingCmd
RecNext == P_entry \/ ProducerInternal \/ Consumer \/ Spurious \/ RecMain
RecSpec == RecInit /\ [][RecNext]_vars

\* Close and reopen while recording: the state after open and
\* start-recording, the regular device delivering chunks of up to MaxEvents
\* events, the commands close and open.
ReopenInit == Opened(DevW, DevH) /\ dev_t = 0 /\ recording_enabled
R_entry ==
    /\ produced < MaxChunks
    /\ \E n \in 1..MaxEvents :
          LET gs == StepGaps(dev_n = 0, n)
          IN Deliver(gs, StepCols(dev_t, gs))
ReopenMain == M_loop \/ M_none \/ M_noop \/ M_o_fail \/ M_o_failed \/ M_o1
                 \/ M_o2 \/ M_o3 \/ M_o4 \/ M_f1 \/ M_f2 \/ M_f3 \/ M_f4
                 \/ M_f5
ReopenNext == R_entry \/ ProducerInternal \/ Consumer \/ Spurious
                 \/ ReopenMain
ReopenSpec == ReopenInit /\ [][ReopenNext]_vars

\* Biases: the program started with any of a few sets of bias options, the
\* device with or without the bias facility; the commands open, close and
\* the bias commands; no event is delivered.
OptionSets ==
    { <<>>,
      <<[name |-> "bias_diff", value |-> 150]>>,
      <<[name |-> "bias_diff", value |-> -5],
        [name |-> "bias_fo", value |-> 30]>>,
      <<[name |-> "bias_diff", value |-> 50],
        [name |-> "bias_diff_off", value |-> 7],
        [name |-> "bias_hpf", value |-> 95]>>,
      <<[name |-> "bias_diff_on", value |-> 300],
        [name |-> "bias_hpf", value |-> 5]>> }
BiasInit ==
    /\ Constructed("m_start")
    /\ \E entries \in OptionSets, print \in BOOLEAN :
          bias_options = [entries |-> entries, print_bias_on_open |-> print]
    /\ dev_biases \in BOOLEAN
BiasMain == M_start \/ M_loop \/ M_none \/ M_noop \/ M_o_fail \/ M_o_failed
               \/ M_o1 \/ M_o2 \/ M_o3 \/ M_o4 \/ M_f1 \/ M_f2 \/ M_f3
               \/ M_f4 \/ M_f5
BiasNext == BiasMain \/ BiasCmd
BiasSpec == BiasInit /\ [][BiasNext]_vars

\* ------------------------------------------------------- display hand-off
\* The hand-off of the completed frame at the granularity of frame_mutex:
\* the consumer's finalization in three steps (file, lock, publish) and the
\* display loop of main in four (loop test, lock, copy, render).
\* cv::Mat::empty().
MatEmpty(m) == m.cols = 0 \/ m.rows = 0
\* cv::Mat::clone(): a frame of its own with the same content.
Clone(m) == [cols |-> m.cols, rows |-> m.rows, px |-> m.px]

\* Lines 739-756: the file of the window, if it is recorded; the history
\* takes the window as it is finalized.
D_final ==
    /\ cpc = "c_final"
    /\ SetAcc([FinalizeWindow(AccNow, output_dir)
                  EXCEPT !.latest_frame = latest_frame])
    /\ file_sess' = IF Len(files') > Len(files) THEN Append(file_sess, sess)
                                                ELSE file_sess
    /\ cpc' = "c_flock"
    /\ UNCHANGED <<flags, geom, extvars, output_dir, qvars, chunk, ev_i,
                   prodvars, mainvars, hist, seen, open_at_close, rec_at,
                   sess>>

\* Mutant: the consumer publishes without taking frame_mutex.
D_flock_nolock ==
    /\ cpc = "c_flock"
    /\ cpc' = "c_pub"
    /\ UNCHANGED <<flags, geom, extvars, output_dir, qvars, accvars, chunk,
                   ev_i, prodvars, mainvars, outvars, hist, whist>>
\* Line 759: lock_guard on frame_mutex.
D_flock ==
    /\ cpc = "c_flock"
    /\ frame_mutex = "none"
    /\ frame_mutex' = "cons"
    /\ cpc' = "c_pub"
    /\ UNCHANGED <<flags, geom, biasvars, frame_copy, exit_status, closed_at,
                   cmdhist, capvars, output_dir, qvars, accvars, chunk, ev_i,
                   prodvars, mainvars, outvars, hist, whist>>

\* Lines 760-761: latest_frame = current_frame.clone(); the scope's end
\* unlocks.
D_pub ==
    /\ cpc = "c_pub"
    /\ latest_frame' = Clone(current_frame)
    /\ frame_mutex' = "none"
    /\ cpc' = "c_adv"
    /\ UNCHANGED <<flags, geom, biasvars, frame_copy, exit_status, closed_at,
                   cmdhist, capvars, output_dir, qvars, accvars, chunk, ev_i,
                   prodvars, mainvars, files, finalized, hist, whist>>

DConsumer == C_top \/ C_reset \/ C_rreset \/ C_lock \/ C_wait \/ C_wake
                \/ C_notify \/ C_event \/ D_final \/ D_flock \/ D_pub
                \/ C_adv

\* Lines 805-806: the loop condition, and an empty frame_copy.
D_loop ==
    /\ mpc = "m_loop"
    /\ mpc' = IF running THEN "m_flock" ELSE "m_x1"
    /\ frame_copy' = IF running THEN EmptyMat ELSE frame_copy
    /\ UNCHANGED <<flags, geom, biasvars, frame_mutex, exit_status, closed_at,
                   cmdhist, capvars, output_dir, qvars, accvars, convars,
                   prodvars, m_slot, camera, biases, ncmds, dirs_made,
                   outvars, hist, whist>>

\* Line 808: lock_guard on frame_mutex.
D_mlock ==
    /\ mpc = "m_flock"
    /\ frame_mutex = "none"
    /\ frame_mutex' = "main"
    /\ mpc' = "m_copy"
    /\ UNCHANGED <<flags, geom, biasvars, frame_copy, exit_status, closed_at,
                   cmdhist, capvars, output_dir, qvars, accvars, convars,
                   prodvars, m_slot, camera, biases, ncmds, dirs_made,
                   outvars, hist, whist>>

\* Lines 809-812: the copy of a frame that is not empty; the scope's end
\* unlocks.
D_copy ==
    /\ mpc = "m_copy"
    /\ frame_copy' = IF ~MatEmpty(latest_frame) THEN Clone(latest_frame)
                                                ELSE frame_copy
    /\ frame_mutex' = "none"
    /\ mpc' = "m_show"
    /\ UNCHANGED <<flags, geom, biasvars, exit_status, closed_at, cmdhist,
                   capvars, output_dir, qvars, accvars, convars, prodvars,
                   m_slot, camera, biases, ncmds, dirs_made, outvars, hist,
                   whist>>

\* Lines 813-815: imshow of a copy that is not empty.
D_show ==
    /\ mpc = "m_show"
    /\ mpc' = "m_key"
    /\ UNCHANGED <<flags, geom, extvars, output_dir, qvars, accvars, convars,
                   prodvars, m_slot, camera, biases, ncmds, dirs_made,
                   outvars, hist, whist>>

\* The session open, the regular device, main displaying until quit.
DispInit == Opened(DevW, DevH) /\ dev_t = 0 /\ ~recording_enabled
DispMain == D_loop \/ D_mlock \/ D_copy \/ D_show \/ M_none \/ M_q1 \/ M_q2
               \/ M_x1 \/ M_x2 \/ M_join
DispNext == P_entry \/ ProducerInternal \/ DConsumer \/ Spurious \/ DispMain
DispSpec == DispInit /\ [][DispNext]_vars

\* The program started with no device attached, with or without bias
\* options: the startup open, the open command, quit and SIGINT; the
\* consumer waits on the queue that stays empty.
NoDevMain == M_start \/ M_o_fail \/ M_o_failed \/ M_loop \/ M_none \/ M_noop
                \/ M_q1 \/ M_q2 \/ M_x1 \/ M_x2 \/ M_join
NoDevNext == NoDevMain \/ SigInt \/ Spurious \/ C_top \/ C_reset \/ C_rreset
                \/ C_lock \/ C_wait \/ C_wake
NoDevSpec == BiasInit /\ [][NoDevNext]_vars

\* ------------------------------------------------- capture_image sample
\* The display loop of samples/capture_image over the same frame lock:
\* here camera_on stands for AppState::desired_camera_on and running for
\* main's local flag; the slice callback runs on the camera's thread and
\* the trackbar callback inside waitKey on main's.
\* Lines 244-245: a slice is complete; lock_guard on frame_mutex.
S_entry ==
    /\ ppc = "idle"
    /\ streaming
    /\ produced < MaxChunks
    /\ produced' = produced + 1
    /\ ppc' = "s_lock"
    /\ UNCHANGED <<flags, geom, extvars, output_dir, qvars, accvars, convars,
                   pchunk, streaming, dev_t, dev_n, mainvars, outvars, hist,
                   whist>>

S_lock ==
    /\ ppc = "s_lock"
    /\ frame_mutex = "none"
    /\ frame_mutex' = "prod"
    /\ ppc' = "s_gen"
    /\ UNCHANGED <<flags, geom, biasvars, frame_copy, exit_status, closed_at,
                   cmdhist, capvars, output_dir, qvars, accvars, convars,
                   pchunk, streaming, dev_t, dev_n, produced, mainvars,
                   outvars, hist, whist>>

\* Lines 246-250: generate() writes the slice's frame into latest_frame;
\* the scope's end unlocks.
S_generate ==
    /\ ppc = "s_gen"
    /\ latest_frame' = [NewMat(DevH, DevW)
                           EXCEPT !.px = {<<produced % DevW, 0>>}]
    /\ frame_mutex' = "none"
    /\ ppc' = "idle"
    /\ UNCHANGED <<flags, geom, biasvars, frame_copy, exit_status, closed_at,
                   cmdhist, capvars, output_dir, qvars, accvars, convars,
                   pchunk, streaming, dev_t, dev_n, produced, mainvars, files,
                   finalized, hist, whist>>

\* Lines 419-429: the loop condition; start_camera (lines 218-273) or
\* stop_camera (lines 276-288) as the trackbar asks.  Camera::stop returns
\* once the callback has.
K_top ==
    /\ mpc = "k_top"
    /\ IF ~running
       THEN mpc' = "k_stop" /\ UNCHANGED <<camera, streaming, latest_frame>>
       ELSE /\ mpc' = "k_exchange"
            /\ IF camera_on /\ ~camera
               THEN /\ camera' = TRUE
                    /\ streaming' = TRUE
                    /\ latest_frame' = NewMat(DevH, DevW)
               ELSE IF ~camera_on /\ camera
               THEN /\ ppc = "idle"
                    /\ camera' = FALSE
                    /\ streaming' = FALSE
                    /\ UNCHANGED latest_frame
               ELSE UNCHANGED <<camera, streaming, latest_frame>>
    /\ UNCHANGED <<flags, geom, extvars, output_dir, qvars, accvars, convars,
                   ppc, pchunk, dev_t, dev_n, produced, m_slot, biases, ncmds,
                   dirs_made, files, finalized, hist, whist>>

\* Lines 421-425: start_camera fails, main returns 1.
K_top_fail ==
    /\ mpc = "k_top"
    /\ running /\ camera_on /\ ~camera
    /\ mpc' = "k_done"
    /\ exit_status' = 1
    /\ UNCHANGED <<flags, geom, biasvars, dispvars, closed_at, cmdhist,
                   capvars, output_dir, qvars, accvars, convars, prodvars,
                   m_slot, camera, biases, ncmds, dirs_made, outvars, hist,
                   whist>>

\* Mutant: the flag is read with load() and stays set.
K_exchange_load ==
    /\ mpc = "k_exchange"
    /\ mpc' = IF capture_requested THEN "k_capture" ELSE "k_check"
    /\ served' = IF capture_requested THEN Append(served, requests)
                                      ELSE served
    /\ UNCHANGED <<flags, geom, biasvars, dispvars, exit_status, closed_at,
                   cmdhist, capture_requested, requests, captures,
                   output_dir, qvars, accvars, convars, prodvars, m_slot,
                   camera, biases, ncmds, dirs_made, outvars, hist, whist>>
\* Line 431: capture_requested.exchange(false).
K_exchange ==
    /\ mpc = "k_exchange"
    /\ mpc' = IF capture_requested THEN "k_capture" ELSE "k_check"
    /\ capture_requested' = FALSE
    /\ served' = IF capture_requested THEN Append(served, requests)
                                      ELSE served
    /\ UNCHANGED <<flags, geom, biasvars, dispvars, exit_status, closed_at,
                   cmdhist, requests, captures, output_dir, qvars, accvars,
                   convars, prodvars, m_slot, camera, biases, ncmds,
                   dirs_made, outvars, hist, whist>>

\* Lines 291-318: capture_image: the copy of latest_frame under
\* frame_mutex, then the file when there is a frame.
K_capture ==
    /\ mpc = "k_capture"
    /\ frame_mutex = "none"
    /\ captures' = captures + 1
    /\ frame_copy' = IF MatEmpty(latest_frame) THEN frame_copy
                                               ELSE Clone(latest_frame)
    /\ mpc' = "k_check"
    /\ UNCHANGED <<flags, geom, biasvars, frame_mutex, exit_status,
                   closed_at, cmdhist, capture_requested, requests, served,
                   output_dir, qvars, accvars, convars, prodvars, m_slot,
                   camera, biases, ncmds, dirs_made, outvars, hist, whist>>

\* Line 435: latest_frame.empty(), read before the lock is taken.
K_check ==
    /\ mpc = "k_check"
    /\ mpc' = IF ~MatEmpty(latest_frame) THEN "k_lock" ELSE "k_key"
    /\ UNCHANGED <<flags, geom, extvars, output_dir, qvars, accvars, convars,
                   prodvars, m_slot, camera, biases, ncmds, dirs_made,
                   outvars, hist, whist>>

\* Line 436: lock_guard on frame_mutex.
K_lock ==
    /\ mpc = "k_lock"
    /\ frame_mutex = "none"
    /\ frame_mutex' = "main"
    /\ mpc' = "k_imshow"
    /\ UNCHANGED <<flags, geom, biasvars, frame_copy, exit_status, closed_at,
                   cmdhist, capvars, output_dir, qvars, accvars, convars,
                   prodvars, m_slot, camera, biases, ncmds, dirs_made,
                   outvars, hist, whist>>

\* Lines 437-438: imshow of latest_frame itself; the scope's end unlocks.
K_imshow ==
    /\ mpc = "k_imshow"
    /\ frame_mutex' = "none"
    /\ mpc' = "k_key"
    /\ UNCHANGED <<flags, geom, biasvars, frame_copy, exit_status, closed_at,
                   cmdhist, capvars, output_dir, qvars, accvars, convars,
                   prodvars, m_slot, camera, biases, ncmds, dirs_made,
                   outvars, hist, whist>>

\* Lines 440-448: waitKey and the event loop: no key, quit, or the camera
\* trackbar moved (line 169); the capture trackbar moved any number of
\* times (lines 177-186: each sets the flag).
K_key ==
    /\ mpc = "k_key"
    /\ \E key \in {"none", "q", "camera"} :
          /\ key # "none" => ncmds < MaxCmds
          /\ ncmds' = IF key = "none" THEN ncmds ELSE ncmds + 1
          /\ running' = IF key = "q" THEN FALSE ELSE running
          /\ camera_on' = IF key = "camera" THEN ~camera_on ELSE camera_on
    /\ \E n \in 0..(MaxRequests - requests) :
          /\ requests' = requests + n
          /\ capture_requested' = (capture_requested \/ n > 0)
    /\ mpc' = "k_top"
    /\ UNCHANGED <<recording_enabled, reset_requested,
                   recording_reset_requested, geom, biasvars, dispvars,
                   exit_status, closed_at, cmdhist, served, captures,
                   output_dir, qvars, accvars, convars, prodvars, m_slot,
                   camera, biases, dirs_made, outvars, hist, whist>>

\* Lines 451-452: stop_camera and return 0.
K_stop ==
    /\ mpc = "k_stop"
    /\ camera => ppc = "idle"
    /\ camera' = FALSE
    /\ streaming' = FALSE
    /\ exit_status' = 0
    /\ mpc' = "k_done"
    /\ UNCHANGED <<flags, geom, biasvars, dispvars, closed_at, cmdhist,
                   capvars, output_dir, qvars, accvars, convars, ppc, pchunk,
                   dev_t, dev_n, produced, m_slot, biases, ncmds, dirs_made,
                   outvars, hist, whist>>

CapInit ==
    Constructed("k_top") /\ bias_options = NoOptions /\ dev_biases = TRUE
CapNext == S_entry \/ S_lock \/ S_generate \/ K_top \/ K_top_fail
              \/ K_exchange \/ K_capture \/ K_check \/ K_lock \/ K_imshow
              \/ K_key \/ K_stop
CapSpec == CapInit /\ [][CapNext]_vars

\* All four session and recording commands and no quit, the camera off at
\* the start.
CmdMain == M_loop \/ M_none \/ M_noop \/ M_o_fail \/ M_o_failed \/ M_o1
              \/ M_o2 \/ M_o3 \/ M_o4 \/ M_f1 \/ M_f2 \/ M_f3 \/ M_f4 \/ M_f5
              \/ RecordingCmd
CmdNext == Producer \/ Consumer \/ Spurious \/ CmdMain
CmdSpec == Init /\ [][CmdNext]_vars

\* The end-to-end example: a 4 x 4 device whose events are (x, y, t) =
\* (1, 1, 0), (2, 2, 1500), (3, 3, 2500), delivered in chunks of any size.
ExEvents ==
    << [x |-> 1, y |-> 1, t |-> 0], [x |-> 2, y |-> 2, t |-> 1500],
       [x |-> 3, y |-> 3, t |-> 2500] >>
ExInit == Opened(4, 4) /\ dev_t = 0
X_entry ==
    \E n \in 1..Len(ExEvents) :
       /\ dev_n + n <= Len(ExEvents)
       /\ DeliverEvs(SubSeq(ExEvents, dev_n + 1, dev_n + n))
ExNext == X_entry \/ ProducerInternal \/ Consumer \/ Spurious
ExSpec == ExInit /\ [][ExNext]_vars

\* A device that also reports events outside its geometry: each event at
\* column 0 or DevW and row 0 or DevH, at any of the distances Gaps.
OutCoords == {<<0, 0>>, <<DevW, 0>>, <<0, DevH>>}
MkEvs(t, gs, cs) ==
    [i \in 1..Len(gs) |-> [x |-> cs[i][1], y |-> cs[i][2],
                           t |-> t + Sum(gs, i)]]
O_entry ==
    \E n \in ChunkLens :
       /\ dev_n + n <= MaxEvents
       /\ \E gs \in [1..n -> Gaps], cs \in [1..n -> OutCoords] :
             DeliverEvs(MkEvs(dev_t, gs, cs))
OutInit == Opened(DevW, DevH) /\ dev_t = 0
OutNext == O_entry \/ ProducerInternal \/ Consumer \/ Spurious
OutSpec == OutInit /\ [][OutNext]_vars

\* Lines 738-780: the while loop of one event.
RECURSIVE CrossAll(_, _, _, _)
CrossAll(a, ev, rec, dir) ==
    IF Crosses(a, ev)
       THEN CrossAll(AdvanceWindow(FinalizeWindow(a, dir), rec), ev, rec, dir)
       ELSE a

\* Lines 725-787: the body of the for loop for one event.
EventStep(a, ev, w, h, rec, dir) ==
    IF a.window_start = NoWindow /\ NoGeometry(w, h)
       THEN a
       ELSE MarkEvent(CrossAll(IF a.window_start = NoWindow
                                  THEN OpenWindow(a, ev, w, h, rec)
                                  ELSE a, ev, rec, dir), ev)

\* Lines 724-788: the for loop over one chunk.
RECURSIVE ProcessChunk(_, _, _, _, _, _)
ProcessChunk(a, evs, w, h, rec, dir) ==
    IF evs = <<>>
       THEN a
       ELSE ProcessChunk(EventStep(a, Head(evs), w, h, rec, dir), Tail(evs),
                         w, h, rec, dir)

\* ======================================================== properties
\* The session as the claims speak of it, read from the flags.
SessionActive == running /\ camera_on
\* The callback holds a chunk it has neither appended nor discarded.
InEnqueue == ppc \in {"p_lock", "p_wait", "p_blocked", "p_push"}
\* The callback's next step is a test of the flags under the mutex.
AtFlagTest == ppc \in {"p_lock", "p_blocked"}
\* A step of the ingestion callback.
ProducerStep == <<ppc, produced>>' # <<ppc, produced>>
\* A step that appends to the queue.
Appends == Len(queue') > Len(queue)
\* Sequence s without the elements of set x.
Without(s, x) == SelectSeq(s, LAMBDA e : e \notin x)
\* The ids of a queue's chunks, front first.
IdSeq(q) == [i \in 1..Len(q) |-> q[i].id]
NoDuplicates(s) == \A i, j \in 1..Len(s) : s[i] = s[j] => i = j

\* C1: the queue never holds more than kMaxQueueSize chunks, and the
\* callback is about to append only with the mutex held and size < capacity.
C1_QueueBounded ==
    /\ Len(queue) <= kMaxQueueSize
    /\ ppc = "p_push" => mutex = "prod" /\ Len(queue) < kMaxQueueSize

\* C1 witness: the queue is full and the callback is blocked on it.
C1_Witness ==
    Len(queue) = kMaxQueueSize /\ ppc = "p_blocked" /\ "prod" \in cv

\* C2 (blocking): while the queue stays full and the session active, a
\* callback inside its enqueue stays there with its chunk, and the queue is
\* not appended to.
C2_Blocks ==
    [][(InEnqueue /\ Len(queue) = kMaxQueueSize /\ SessionActive
        /\ Len(queue') = kMaxQueueSize /\ running' /\ camera_on')
       => (InEnqueue' /\ ppc' # "p_push" /\ pchunk' = pchunk
           /\ enq_log' = enq_log)]_vars

\* C2 (waking): the notify that follows a dequeue takes a blocked callback
\* out of the wait set.
C2_Wakes ==
    [][(cpc = "c_notify" /\ cpc' # "c_notify" /\ "prod" \in cv)
       => "prod" \notin cv']_vars

\* C2 (appending): a callback blocked with chunk k gets k appended, unless
\* the session is deactivated meanwhile.
C2_Appended ==
    \A k \in 1..MaxChunks :
        (ppc = "p_blocked" /\ pchunk.id = k)
            ~> (k \in Ids(queue) \/ ~SessionActive)

\* C2: backpressure: the (C+1)th enqueue blocks on a full queue and is
\* completed once the consumer has dequeued a chunk.
C2_Backpressure == C2_Blocks /\ C2_Wakes /\ C2_Appended

\* C2 witness: after a dequeue from the full queue the blocked callback is
\* out of the wait set, about to append its chunk.
C2_Witness ==
    /\ ppc = "p_blocked"
    /\ "prod" \notin cv
    /\ Len(queue) = kMaxQueueSize - 1
    /\ Len(enq_log) = kMaxQueueSize
    /\ Len(deq_log) = 1
    /\ cpc = "c_event"
    /\ SessionActive

\* C3: strict FIFO: the chunks appended and not cleared by a close are
\* exactly the chunks dequeued, in order, followed by the chunks queued;
\* no chunk is dequeued twice.
C3_Fifo ==
    /\ Without(enq_log, lost) = deq_log \o IdSeq(queue)
    /\ NoDuplicates(deq_log)
    /\ lost = {} => enq_log = deq_log \o IdSeq(queue)

\* C3 witness: two chunks dequeued with a third one queued, nothing cleared.
C3_Witness == Len(deq_log) >= 2 /\ queue # <<>> /\ lost = {}

\* C6: the window that is live when a close has returned is never finalized:
\* no frame is published and no file written for it.
C6_ClosedWindowDiscarded ==
    [][open_at_close => finalized' = finalized /\ files' = files]_vars

\* C7: once running is false the consumer terminates.
C7_ConsumerTerminates == (~running) ~> (cpc = "c_done")

\* C8: once the session is deactivated a callback blocked on the full queue
\* returns.
C8_ProducerReleased ==
    (~SessionActive /\ ppc \in {"p_wait", "p_blocked"}) ~> (ppc = "idle")

\* C9 (as claimed): an enqueue that finds the session deactivated returns
\* without appending, and no chunk is appended once the session is
\* deactivated.
C9_NoAppendOnceDeactivated ==
    /\ [][(ProducerStep /\ ~SessionActive /\ (AtFlagTest \/ ppc = "idle"))
          => (ppc' = "idle" /\ queue' = queue)]_vars
    /\ [][Appends => SessionActive]_vars

\* C9 (amended): an enqueue that tests the flags and finds the session
\* deactivated returns without appending and discards its chunk; an append
\* is made only by a callback whose last test found the session active.
C9_DeactivatedEnqueueReturns ==
    /\ [][(ProducerStep /\ ~SessionActive /\ (AtFlagTest \/ ppc = "idle"))
          => (ppc' = "idle" /\ pchunk' = NoChunk /\ queue' = queue
              /\ enq_log' = enq_log)]_vars
    /\ [][(ProducerStep /\ AtFlagTest /\ ppc' = "p_push") => SessionActive]_vars
    /\ [][Appends => ppc = "p_push"]_vars

\* C9 witness: a callback that was blocked has returned without appending.
C9_Witness ==
    /\ ppc = "idle"
    /\ produced > Len(enq_log)
    /\ Len(enq_log) = kMaxQueueSize
    /\ ~SessionActive

\* C10 (as claimed): the consumer stops only once the session is
\* deactivated and the queue has drained, and blocks while the session is
\* active and the queue empty.
C10_StopsOnlyDrained ==
    /\ [][(cpc' = "c_done" /\ cpc # "c_done")
          => (~running /\ queue = <<>>)]_vars
    /\ [][(cpc \in {"c_lock", "c_blocked"} /\ cpc' # cpc /\ running
           /\ queue = <<>>) => cpc' = "c_wait"]_vars

\* C10 (amended): the consumer stops only on running = false, and then at
\* once, whatever is queued; while running is true and the queue is empty it
\* blocks; a chunk it takes is the front of the queue.
C10_StopsOnlyOnQuit ==
    /\ [][(cpc' = "c_done" /\ cpc # "c_done") => ~running]_vars
    /\ [][(cpc \in {"c_lock", "c_blocked"} /\ cpc' # cpc /\ ~running)
          => (cpc' = "c_done" /\ queue' = queue)]_vars
    /\ [][(cpc \in {"c_lock", "c_blocked"} /\ cpc' # cpc /\ running
           /\ queue = <<>>) => cpc' = "c_wait"]_vars
    /\ [][(cpc \in {"c_lock", "c_blocked"} /\ cpc' # cpc /\ running
           /\ queue # <<>>) => (cpc' = "c_notify" /\ chunk' = Head(queue))]_vars

\* C10 witness: the consumer has stopped with a chunk still queued.
C10_Witness == cpc = "c_done" /\ queue # <<>>

\* ------------------------------------------------- windowing claims
\* The consumer is between two events: the last event of seen has been
\* marked and appended.
BetweenEvents == cpc \notin {"c_final", "c_adv"}
Last(q) == q[Len(q)]
\* The events of a sequence with a timestamp in [t0, t0 + kWindowUs).
InWindow(evs, t0) ==
    SelectSeq(evs, LAMBDA e : t0 <= e.t /\ e.t < t0 + kWindowUs)
\* The window of timestamp t for a session that started at s0.
WindowOf(t, s0) == s0 + ((t - s0) - ((t - s0) % kWindowUs))

\* C4: window partition: the event just processed lies in the live window,
\* which starts at t - (t mod W) relative to the session's first event and
\* is W wide; finalized windows follow each other without gap or overlap and
\* the live one follows the last finalized; a recorded window holds exactly
\* the events of its interval.
C4_WindowPartition ==
    /\ (BetweenEvents /\ seen # <<>>) =>
          /\ window_start <= Last(seen).t
          /\ Last(seen).t < window_end
          /\ window_start = WindowOf(Last(seen).t, seen[1].t)
          /\ window_recording => window_events = InWindow(seen, window_start)
    /\ window_start # NoWindow => window_end = window_start + kWindowUs
    /\ \A i \in 1..Len(finalized) :
          /\ finalized[i].t0 = seen[1].t + (i - 1) * kWindowUs
          /\ finalized[i].recorded =>
                finalized[i].events = InWindow(seen, finalized[i].t0)
    /\ (finalized # <<>> /\ cpc # "c_adv") =>
          window_start = Last(finalized).t0 + kWindowUs

\* C4 witness: an event has been placed after a gap of an empty window, in
\* a session whose first timestamp is no multiple of the window width.
C4_Witness ==
    /\ BetweenEvents
    /\ Len(finalized) >= 2
    /\ seen[1].t % kWindowUs # 0
    /\ Last(seen).t >= window_start
    /\ Len(deq_log) >= 2

C11_ExitAfterConsumer ==
    /\ [][mpc' = "m_done" => cpc = "c_done"]_vars
    /\ [][mpc = "m_done" =>
            (cpc' = "c_done" /\ latest_frame' = latest_frame
             /\ files' = files /\ finalized' = finalized)]_vars

\* C11 witness: main has passed the join after the consumer had published
\* a frame and was stopped by a quit with a chunk still queued.
C11_Witness ==
    /\ mpc = "m_done"
    /\ finalized # <<>>
    /\ queue # <<>>

\* ------------------------------------------------- end-to-end example
\* All events of the example have been processed.
ExDone == seen = ExEvents /\ BetweenEvents
\* The pixels set in a frame.
Pixels(f) == f.px

C18_FailedStartRecording ==
    /\ [][(mpc' = "m_s_failed" /\ mpc # "m_s_failed") =>
            UNCHANGED <<recording_enabled, output_dir,
                        recording_reset_requested, recording_frame_index,
                        dirs_made, sess>>]_vars
    /\ [][mpc = "m_s_failed" =>
            (mpc' \in {"m_s_failed", "m_console", "m_loop"}
             /\ UNCHANGED <<recording_enabled, output_dir, dirs_made,
                            sess>>)]_vars
    /\ [](mpc = "m_s_failed" => ~recording_enabled)

\* C18 witness: a start-recording has failed after an earlier recording
\* had written a file.
C18_Witness ==
    /\ mpc = "m_s_failed"
    /\ recording_frame_index >= 1
    /\ output_dir # 0
    /\ ~recording_enabled

\* C19: after a start() that throws, camera_on is not true.
C19_FailedStartLeavesClosed == mpc = "m_abort" => ~camera_on

\* C20: an open that finds no device leaves the prior state: camera_on
\* false, no camera object, no callback installed, and flags, geometry,
\* bias facility and queue as they were.
C20_FailedOpenLeavesState ==
    /\ [][(mpc' = "m_o_failed" /\ mpc # "m_o_failed") =>
            UNCHANGED <<flags, geom, camera, biases, queue, streaming>>]_vars
    /\ [][mpc = "m_o_failed" =>
            (mpc' \in {"m_o_failed", "m_console", "m_loop"}
             /\ UNCHANGED <<camera_on, geom, camera, biases,
                            streaming>>)]_vars
    /\ [](mpc = "m_o_failed" =>
            (~camera_on /\ ~camera /\ ~biases /\ ~streaming))

\* C20 witness: an open has failed after a session that was opened and
\* closed, the geometry of that session still stored.
C20_Witness ==
    /\ mpc = "m_o_failed"
    /\ camera_width = DevW
    /\ enq_log # <<>>

\* ------------------------------------------------------------ recording
\* The window of the k-th event of the session.
WinStart(k) == WindowOf(seen[k].t, seen[1].t)
\* The k-th event was marked before recording was ever switched on.
BeforeToggle(k) == \A j \in 1..k : ~rec_at[j]
\* The k-th event was marked with recording on, in the window that was
\* open when recording was switched on.
AfterToggleInWindow(k) ==
    /\ rec_at[k]
    /\ \E j \in 1..k : BeforeToggle(j) /\ WinStart(j) = WinStart(k)
\* The finalized windows that start at t0.
FinalizedAt(t0) == {i \in 1..Len(finalized) : finalized[i].t0 = t0}
\* The k-th event is in the event list persisted for finalized window i.
Persisted(i, k) ==
    /\ finalized[i].recorded
    /\ \E m \in 1..Len(finalized[i].events) :
          finalized[i].events[m] = seen[k]
\* The finalized windows that were recorded, in order.
RecordedWindows == SelectSeq(finalized, LAMBDA f : f.recorded)
\* The files written are those of the recorded windows, in order.
FilesOfRecorded ==
    /\ Len(files) = Len(RecordedWindows)
    /\ \A i \in 1..Len(files) :
          /\ files[i].t0 = RecordedWindows[i].t0
          /\ Len(files[i].lines) = Len(RecordedWindows[i].events)

\* C13: the recording flag is sampled when a window is opened and a
\* window's recording status never changes while it is live; a toggle
\* changes neither the live window nor a finalized one; a finalized window
\* is persisted if and only if its status, sampled at its opening, is on.
C13_SampledAtOpening ==
    /\ [][(window_start # NoWindow /\ window_start' = window_start)
            => window_recording' = window_recording]_vars
    /\ [][(window_start' # NoWindow /\ window_start' # window_start)
            => window_recording' = recording_enabled]_vars
    /\ [][recording_enabled' # recording_enabled
            => UNCHANGED <<window_start, window_recording, window_events,
                           finalized, files>>]_vars
    /\ [][Len(finalized') > Len(finalized)
            => /\ Last(finalized').recorded = window_recording
               /\ Len(files') > Len(files) <=> window_recording]_vars
    /\ [][Len(files') > Len(files)
            => Len(finalized') > Len(finalized)]_vars

\* C13 witness: recording was switched on between the two events of the
\* first window; that window was finalized without a file and the next
\* window is being recorded.
C13_Witness ==
    /\ Len(rec_at) >= 3
    /\ ~rec_at[1] /\ rec_at[2]
    /\ WinStart(2) = WinStart(1)
    /\ Len(finalized) = 1 /\ ~finalized[1].recorded
    /\ files = <<>>
    /\ window_recording /\ window_events # <<>>

RECURSIVE DecimalValue(_)
DecimalValue(ds) ==
    IF ds = <<>> THEN 0
    ELSE 10 * DecimalValue(SubSeq(ds, 1, Len(ds) - 1)) + ds[Len(ds)]

\* C15: one file per finalized recorded window, none for any other
\* window; it is written into the output directory of the moment, under
\* frame_<index on six digits>_t0_<window start>us.txt, and holds the
\* "x y" lines of exactly the events marked in that window, in order.
C15_OneFilePerRecordedWindow ==
    /\ [](/\ Len(files) = Len(RecordedWindows)
          /\ \A i \in 1..Len(files) :
                LET f == files[i]
                    w == RecordedWindows[i]
                IN /\ f.t0 = w.t0
                   /\ w.events = InWindow(seen, w.t0)
                   /\ f.lines = [j \in 1..Len(w.events) |->
                                    <<w.events[j].x, w.events[j].y>>]
                   /\ f.dir # 0
                   /\ f.path[1] = f.dir /\ f.path[2] = "/frame_"
                   /\ Len(f.path[3]) = 6
                   /\ DecimalValue(f.path[3]) = f.index
                   /\ f.path[4] = "_t0_"
                   /\ DecimalValue(f.path[5]) = w.t0
                   /\ f.path[6] = "us.txt")
    /\ [][Len(files') > Len(files)
            => /\ Len(files') = Len(files) + 1
               /\ Last(files').dir = output_dir
               /\ Last(files').index = recording_frame_index + 1
               /\ Last(files').t0 = window_start]_vars

\* C15 witness: a window of two events and a window of one event have
\* been persisted, and a later window was finalized without a file.
C15_Witness ==
    /\ Len(files) = 2
    /\ Len(files[1].lines) = 2
    /\ Len(files[2].lines) = 1
    /\ files[2].index = 2
    /\ Len(finalized) = 3

\* The files written so far in the recording session of file i.
SessionFilesUpTo(i) == {j \in 1..i : file_sess[j] = file_sess[i]}

\* C16: within a recording session the k-th file carries index k; stated
\* for the first recording session of a run, whose files are those written
\* before a second start-recording command.
C16_SequentialIndex ==
    \A i \in 1..Len(files) :
        file_sess[i] = 1 =>
            files[i].index = Cardinality(SessionFilesUpTo(i))

\* C17: no two files written in one recording session have the same path.
C17_NoPathCollision ==
    \A i, j \in 1..Len(files) :
        (i < j /\ file_sess[i] = file_sess[j])
            => files[i].path # files[j].path

\* ------------------------------------------------------ recording reset
\* C27: consuming a recording reset zeroes the persisted-frame counter and
\* leaves the window bounds, the live frame buffer, the live event list,
\* the window's recording status and the display frame counter as they
\* were; without a pending signal the counter is left alone too.
C27_RecordingResetOnlyCounter ==
    /\ [][(cpc = "c_rreset" /\ cpc' # "c_rreset")
            => /\ recording_frame_index' =
                     (IF recording_reset_requested THEN 0
                                                   ELSE recording_frame_index)
               /\ ~recording_reset_requested'
               /\ UNCHANGED <<window_start, window_end, window_events,
                              current_frame, window_recording, frame_index,
                              latest_frame, files, finalized>>]_vars
    /\ [][(recording_reset_requested /\ ~recording_reset_requested')
            => cpc = "c_rreset"]_vars

\* C27 witness: the recording reset of a second start-recording has been
\* consumed with a window live and a file of the first recording written.
C27_Witness ==
    /\ cpc = "c_lock"
    /\ sess = 2
    /\ ~recording_reset_requested
    /\ recording_frame_index = 0
    /\ files # <<>>
    /\ window_start # NoWindow
    /\ current_frame.px # {}

\* ---------------------------------------------------------------- close
\* The session is closed: never opened, or the last close has cleared the
\* queue and no open has stored camera_on since.
Closed == ~camera_on /\ mpc \notin {"m_f2", "m_f3"}

\* C28: when the close command returns the queue is empty and it stays
\* empty until the next open: the device is stopped, with no callback in
\* flight, when the queue is cleared, and nothing is appended afterwards.
C28_EmptyAfterClose ==
    /\ [](Closed => (queue = <<>> /\ ~streaming /\ ppc = "idle"))
    /\ [][(mpc = "m_f3" /\ mpc' # "m_f3")
            => (~streaming /\ ppc = "idle" /\ queue' = <<>>)]_vars
    /\ [][Appends => (camera_on \/ mpc = "m_f2")]_vars

\* C28 witness: a close that cleared queued chunks has returned.
C28_Witness ==
    /\ Closed
    /\ lost # {}
    /\ mpc \in {"m_loop", "m_key", "m_console"}
    /\ open_at_close

\* --------------------------------------------------------- gap handling
\* The pixels of the events of seen that lie in the window starting at t0.
PixelsIn(t0) ==
    {<<seen[j].x, seen[j].y>> :
        j \in {i \in 1..Len(seen) :
                  t0 <= seen[i].t /\ seen[i].t < t0 + kWindowUs}}

\* C30: an event k window widths past the live window's start finalizes
\* exactly k windows, one step of the while loop each: the live one and
\* k - 1 intermediate ones without a pixel; it is then in the window
\* [start + k W, start + (k + 1) W); an event before the live window's end
\* finalizes nothing.
C30_GapHandling ==
    /\ []((BetweenEvents /\ seen # <<>>) =>
            LET s0 == seen[1].t
                k == (Last(seen).t - s0) \div kWindowUs
            IN /\ Len(finalized) = k
               /\ window_start = s0 + k * kWindowUs
               /\ window_end = s0 + (k + 1) * kWindowUs
               /\ \A i \in 1..k :
                     /\ finalized[i].t0 = s0 + (i - 1) * kWindowUs
                     /\ finalized[i].frame.px = PixelsIn(finalized[i].t0))
    /\ [][Len(finalized') # Len(finalized)
            => /\ Len(finalized') = Len(finalized) + 1
               /\ cpc = "c_final"
               /\ CurEv.t >= window_end
               /\ latest_frame' = Last(finalized').frame]_vars
    /\ [][(cpc = "c_event" /\ cpc' # "c_event" /\ window_start # NoWindow
           /\ CurEv.t < window_end)
            => (finalized' = finalized /\ window_start' = window_start
                /\ cpc' # "c_final")]_vars

\* C30 witness: the second event of the session came two window widths
\* after the first: two windows are finalized, the second without a pixel.
C30_Witness ==
    /\ BetweenEvents
    /\ Len(seen) = 2
    /\ Len(finalized) = 2
    /\ finalized[1].frame.px # {}
    /\ finalized[2].frame.px = {}
    /\ current_frame.px # {}
    /\ window_start = seen[1].t + 2 * kWindowUs

\* ------------------------------------------------- out-of-range events
\* The event lies inside the frame buffer f.
InFrame(ev, f) == ev.x < f.cols /\ ev.y < f.rows
\* Every event of a list lies inside the frame buffer f.
AllInFrame(evs, f) == \A i \in 1..Len(evs) : InFrame(evs[i], f)

\* C23: every pixel set lies inside the frame buffer, and an event outside
\* it is discarded: it is in no raw-event list, neither the live window's
\* nor a finalized window's, and in no file.
C23_OutOfRangeDiscarded ==
    /\ \A p \in current_frame.px :
          p[1] < current_frame.cols /\ p[2] < current_frame.rows
    /\ AllInFrame(window_events, current_frame)
    /\ \A i \in 1..Len(finalized) :
          AllInFrame(finalized[i].events, finalized[i].frame)

\* The part of C23 that holds: every pixel set, in the live frame buffer,
\* in a finalized frame and in the published one, lies inside the buffer.
C23_PixelsInFrame ==
    /\ \A p \in current_frame.px :
          p[1] < current_frame.cols /\ p[2] < current_frame.rows
    /\ \A p \in latest_frame.px :
          p[1] < latest_frame.cols /\ p[2] < latest_frame.rows
    /\ \A i \in 1..Len(finalized) : \A p \in finalized[i].frame.px :
          p[1] < finalized[i].frame.cols /\ p[2] < finalized[i].frame.rows

\* ---------------------------------------------------------------- biases
\* The range a write of the bias is clamped into: the one the driver
\* reports, its bounds in order, and 0..255 for a bias it reports none of.
ReportedRange(name) ==
    IF GetBiasInfo(name)
       THEN LET r == DevBias[name].range
            IN IF r[1] <= r[2] THEN r ELSE <<r[2], r[1]>>
       ELSE <<0, 255>>
\* The options that name the bias and the value.
OptionFor(name, value) ==
    \E i \in 1..Len(bias_options.entries) :
        bias_options.entries[i] = [name |-> name, value |-> value]

\* C21: every value handed to the driver's set lies in the bias's range and
\* is the requested value clamped into it; on the set path the request is
\* the option's value, on the adjust path the current value plus or minus
\* the step.
C21_ClampedWrites ==
    /\ [](\A i \in 1..Len(set_calls) :
            LET c == set_calls[i]
                min == ReportedRange(c.name)[1]
                max == ReportedRange(c.name)[2]
            IN /\ min <= c.value /\ c.value <= max
               /\ (min <= c.requested /\ c.requested <= max)
                     => c.value = c.requested
               /\ c.requested > max => c.value = max
               /\ c.requested < min => c.value = min)
    /\ [][(Len(set_calls') > Len(set_calls) /\ mpc = "m_o4") =>
            \A i \in (Len(set_calls) + 1)..Len(set_calls') :
                OptionFor(set_calls'[i].name, set_calls'[i].requested)]_vars
    /\ [][(Len(set_calls') > Len(set_calls) /\ mpc # "m_o4") =>
            /\ Len(set_calls') = Len(set_calls) + 1
            /\ Last(set_calls').name = selected_bias
            /\ \E sign \in {1, -1} :
                  Last(set_calls').requested =
                     bias_val[selected_bias]
                        + sign * step_options[bias_step_index + 1]]_vars

\* C21 witness: the option bias_diff = 150 was written as 100, the top of
\* the range 0..100, and a '+' on it was then clamped to 100 as well.
C21_Witness ==
    /\ Len(set_calls) >= 2
    /\ set_calls[1] = [name |-> "bias_diff", requested |-> 150,
                       value |-> 100]
    /\ set_calls[2].name = "bias_diff"
    /\ set_calls[2].requested > 100
    /\ set_calls[2].value = 100

\* The outcomes that follow a call of the driver's set.
Written == {"Applied", "BiasWriteFailed"}
\* The requests that reached the driver, in order.
WriteLog == SelectSeq(bias_log, LAMBDA e : e.outcome \in Written)
\* The value of the last accepted write of a bias, or its power-up value.
RECURSIVE LastApplied(_, _)
LastApplied(name, k) ==
    IF k = 0 THEN DevBias[name].value
    ELSE IF WriteLog[k].name = name /\ WriteLog[k].outcome = "Applied"
    THEN set_calls[k].value
    ELSE LastApplied(name, k - 1)

\* C22: a bias request on a device without the bias facility fails as
\* BiasUnsupported, else one for an unknown bias as BiasNotFound, else one
\* for a bias that is not modifiable as BiasReadOnly, none of them with a
\* call of the driver's set; a write the driver rejects is reported as
\* BiasWriteFailed; a failed request changes no bias value, and a failed
\* bias command changes neither the selected bias, nor the step, nor the
\* session.
C22_BiasFailures ==
    /\ [](\A i \in 1..Len(bias_log) :
            LET e == bias_log[i]
            IN (e.outcome \notin {"CameraOff", "NoSelection"}) =>
                 /\ e.outcome = "BiasUnsupported" <=> ~dev_biases
                 /\ e.outcome = "BiasNotFound" =>
                       (e.name \notin AllBiases \/ ~GetBiasInfo(e.name))
                 /\ (dev_biases /\ e.name \notin AllBiases) =>
                       e.outcome = "BiasNotFound"
                 /\ e.outcome = "BiasReadOnly" <=>
                       (dev_biases /\ GetBiasInfo(e.name)
                        /\ ~IsModifiable(e.name)))
    /\ [](/\ Len(WriteLog) = Len(set_calls)
          /\ \A k \in 1..Len(set_calls) :
                /\ WriteLog[k].name = set_calls[k].name
                /\ WriteLog[k].outcome = "BiasWriteFailed" <=>
                      set_calls[k].value > DevBias[set_calls[k].name].accepts
          /\ \A name \in AllBiases :
                bias_val[name] = LastApplied(name, Len(set_calls)))
    /\ [][(Len(bias_log') > Len(bias_log) /\ mpc # "m_o4"
           /\ Last(bias_log').outcome # "Applied") =>
            /\ Len(bias_log') = Len(bias_log) + 1
            /\ Last(bias_log').outcome # "BiasWriteFailed"
                  => set_calls' = set_calls
            /\ UNCHANGED <<selected_bias, bias_step_index, bias_val, flags,
                           geom, camera, biases, streaming, output_dir,
                           queue>>]_vars

\* C22 witness: of the options, bias_diff_off was not found and the
\* driver rejected the value of bias_hpf; a '+' on the read-only bias_fo
\* was then refused.
C22_Witness ==
    /\ Len(bias_log) = 4
    /\ bias_log[2] = [name |-> "bias_diff_off", outcome |-> "BiasNotFound"]
    /\ bias_log[3] = [name |-> "bias_hpf", outcome |-> "BiasWriteFailed"]
    /\ bias_log[4] = [name |-> "bias_fo", outcome |-> "BiasReadOnly"]
    /\ bias_val["bias_hpf"] = DevBias["bias_hpf"].value
    /\ selected_bias = "bias_fo"

\* ------------------------------------------------------------- reopen
\* C29: after a close and an open the accumulator is idle before it takes
\* up an event of the new session: no event of a chunk created after the
\* close is placed while the window that was live when the close returned
\* is still live.
C29_IdleBeforeNewSession ==
    (cpc = "c_event" /\ chunk.id > closed_at) => ~open_at_close

\* ------------------------------------------------------ frame snapshot
\* The frame is empty or that of a window as it was finalized.
OfFinalized(m) ==
    MatEmpty(m) \/ \E i \in 1..Len(finalized) : finalized[i].frame = m

\* C24: the frame shared with the display is empty or the frame of a
\* window as it was finalized, and so is the copy main renders; it is
\* written only by the consumer's publication, as the frame of the window
\* just finalized, and read only by main's copy, both holding frame_mutex,
\* which one thread holds at a time.
C24_SnapshotOfFinalized ==
    /\ [](OfFinalized(latest_frame) /\ OfFinalized(frame_copy))
    /\ [](/\ cpc = "c_pub" <=> frame_mutex = "cons"
          /\ mpc = "m_copy" <=> frame_mutex = "main")
    /\ [][latest_frame' # latest_frame
            => /\ cpc = "c_pub" /\ frame_mutex = "cons"
               /\ latest_frame' = Last(finalized).frame]_vars
    /\ [][(frame_copy' # frame_copy /\ ~MatEmpty(frame_copy'))
            => /\ mpc = "m_copy" /\ frame_mutex = "main"
               /\ frame_copy' = latest_frame]_vars
    /\ [][current_frame' # current_frame
            => UNCHANGED <<latest_frame, frame_copy>>]_vars

\* C24 witness: main is about to render the frame of the first window
\* while the second window's frame is published and the third is live with
\* a pixel set.
C24_Witness ==
    /\ mpc = "m_show"
    /\ Len(finalized) = 2
    /\ frame_copy = finalized[1].frame
    /\ latest_frame = finalized[2].frame
    /\ finalized[1].frame # finalized[2].frame
    /\ current_frame.px # {}
    /\ current_frame # latest_frame

\* C25: no render call is made with the frame lock held.
C25_NoRenderUnderLock ==
    mpc \in {"m_show", "k_imshow"} => frame_mutex # "main"

\* ---------------------------------------------------------- exit status
\* C26: the process exits with status 0 after a quit, and with a status
\* other than 0 when the open at startup found no device.
C26_ExitStatus ==
    mpc = "m_done" => (exit_status = 0 <=> ~StartupOpen)

\* The part of C26 that holds: main returns 0, and only by returning.
C26_QuitStatusZero ==
    IF mpc = "m_done" THEN exit_status = 0 ELSE exit_status = NoExit

\* ---------------------------------------------------- frame buffer content
\* The pixels of the events processed in the window starting at t0 that lie
\* inside the frame buffer f.
PixelsOfWindow(t0, f) ==
    {<<seen[j].x, seen[j].y>> :
        j \in {i \in 1..Len(seen) :
                  /\ t0 <= seen[i].t /\ seen[i].t < t0 + kWindowUs
                  /\ InFrame(seen[i], f)}}

\* C31: the frame of every finalized window, and the published one, has
\* set exactly the pixels of the events of that window that lie inside the
\* buffer, and so has the live buffer between two events; a step that moves
\* to another window leaves in the buffer at most the pixel of the event
\* being processed.
C31_FrameIsWindowPixels ==
    /\ [](\A i \in 1..Len(finalized) :
             finalized[i].frame.px
                = PixelsOfWindow(finalized[i].t0, finalized[i].frame))
    /\ [](finalized # <<>> => latest_frame = Last(finalized).frame)
    /\ []((BetweenEvents /\ window_start # NoWindow) =>
             current_frame.px = PixelsOfWindow(window_start, current_frame))
    /\ [][window_start' # window_start
            => /\ current_frame'.px \subseteq {<<CurEv.x, CurEv.y>>}
               /\ current_frame'.cols = camera_width
               /\ current_frame'.rows = camera_height]_vars

\* C31 witness: the first window, finalized, had a pixel set and also
\* received an event outside the buffer; the live window has so far
\* received only an event outside the buffer and has no pixel set.
C31_Witness ==
    /\ BetweenEvents
    /\ Len(finalized) = 1
    /\ finalized[1].frame.px # {}
    /\ \E j \in 1..Len(seen) :
          /\ seen[j].t < finalized[1].t0 + kWindowUs
          /\ ~InFrame(seen[j], finalized[1].frame)
    /\ window_start = finalized[1].t0 + kWindowUs
    /\ Last(seen).t >= window_start
    /\ ~InFrame(Last(seen), current_frame)
    /\ current_frame.px = {}

\* ------------------------------------------------ commands that do not apply
\* A step of main that leaves the command position without running a
\* handler.
ReturnsAtOnce ==
    /\ mpc \in {"m_key", "m_console"}
    /\ mpc' = AfterCmd(mpc)
    /\ ncmds' = ncmds

\* C32: a command issued where it does not apply - open with the camera
\* on, close with it off, start-recording with recording on,
\* stop-recording with it off - returns at once and leaves camera_on, the
\* camera object, the geometry, both reset flags, recording_enabled, the
\* output directory and the queue as they were; hence a camera object is
\* only created with the camera off and none existing, and an output
\* directory only chosen with recording off.
C32_InapplicableCommandsNoOp ==
    /\ [][ReturnsAtOnce
            => UNCHANGED <<camera_on, camera, geom, reset_requested,
                           recording_reset_requested, recording_enabled,
                           output_dir, queue>>]_vars
    /\ [][ignored' # ignored
            => /\ ReturnsAtOnce
               /\ ignored' = "o" => camera_on
               /\ ignored' = "f" => ~camera_on
               /\ ignored' = "s" => recording_enabled
               /\ ignored' = "e" => ~recording_enabled]_vars
    /\ [][(camera' /\ ~camera) => ~camera_on]_vars
    /\ [][output_dir' # output_dir => ~recording_enabled]_vars
    /\ [](camera_on => camera)

\* C32 witness: start-recording has just been ignored, recording on, with
\* the camera on and a chunk in the queue.
C32_Witness ==
    /\ ignored = "s"
    /\ mpc \in {"m_console", "m_loop"}
    /\ recording_enabled
    /\ camera_on
    /\ queue # <<>>

\* ------------------------------------------------- after stop-recording
\* C33: while recording is off, at most one file has been written since it
\* was switched off, and that file is of the window that was live and
\* recording at that moment; a live window that started later is not
\* recording, and a file is only ever written for a recording window.
C33_OneFileAfterStop ==
    /\ [](~recording_enabled =>
            /\ Len(files) <= at_stop.files + 1
            /\ Len(files) = at_stop.files + 1 =>
                  /\ at_stop.recording
                  /\ at_stop.t0 # NoWindow
                  /\ Last(files).t0 = at_stop.t0
            /\ (window_start # NoWindow /\ window_start > at_stop.t0) =>
                  ~window_recording)
    /\ [][Len(files') > Len(files)
            => window_recording /\ Last(files').t0 = window_start]_vars

\* C33 witness: recording is off; the window live and recording at the
\* toggle has been written, and a later window has been finalized
\* without a file.
C33_Witness ==
    /\ ~recording_enabled
    /\ at_stop.recording
    /\ Len(files) = at_stop.files + 1
    /\ finalized # <<>>
    /\ Last(finalized).t0 > at_stop.t0
    /\ ~Last(finalized).recorded
    /\ BetweenEvents

\* ------------------------------------------------------ capture requests
\* The number of requests raised when the flag was last found set.
ServedUpTo == IF served = <<>> THEN 0 ELSE Last(served)

\* C34 as stated: no request is lost: when the process has ended the flag
\* is clear and every request raised was covered by a capture.
C34_NoRequestLost ==
    mpc = "k_done" => (~capture_requested /\ ServedUpTo = requests)

\* C34, amended: the flag is set exactly while a request raised has not
\* been covered by an exchange; only the exchange of the main loop clears
\* it, and it does so on every pass that reaches it; each exchange that
\* found the flag set covers at least one new request, all those raised
\* since the one before, and is followed by exactly one run of
\* capture_image; a pass of the loop that goes on reaches the exchange.
C34_RequestConsumedOnce ==
    /\ [](capture_requested <=> ServedUpTo < requests)
    /\ [](\A i \in 1..Len(served) :
             served[i] > (IF i = 1 THEN 0 ELSE served[i - 1]))
    /\ [](captures + (IF mpc = "k_capture" THEN 1 ELSE 0) = Len(served))
    /\ [][(mpc = "k_exchange" /\ mpc' # mpc)
            => /\ ~capture_requested'
               /\ mpc' = IF capture_requested THEN "k_capture"
                                              ELSE "k_check"]_vars
    /\ [][(capture_requested /\ ~capture_requested')
            => mpc = "k_exchange"]_vars
    /\ [][(mpc = "k_top" /\ mpc' # mpc)
            => mpc' \in {"k_exchange", "k_stop", "k_done"}]_vars
    /\ [][mpc' = "k_exchange" => running]_vars

\* C34 witness: two requests raised between two exchanges were covered by
\* one capture, which saved a frame.
C34_Witness ==
    /\ requests = 2
    /\ served = <<2>>
    /\ captures = 1
    /\ ~capture_requested
    /\ ~MatEmpty(frame_copy)

====
